---- MODULE Spec2Model ----
(***************************************************************************)
(* Model of the Arena plugin's decision-and-dedup engine:                  *)
(*   - ArenaService (services/arena.service.ts): the discovery scan, the   *)
(*     engagement pass, its hourly budget counters and its ledger of       *)
(*     engaged threads;                                                     *)
(*   - ArenaMentionMonitorService (services/mentionMonitor.ts): the        *)
(*     mention scan and its processed/replied sets;                         *)
(*   - the REPLY_ARENA_THREAD and QUOTE_ARENA_THREAD actions.               *)
(* Time is a counter of abstract ticks read where the code reads           *)
(* Date.now(); every await of the code is a point where other tasks and    *)
(* the clock may move.                                                      *)
(***************************************************************************)
EXTENDS Integers, Sequences, FiniteSets, TLC

(***************************************************************************)
(* Bounds of the model                                                     *)
(***************************************************************************)
\* last hour of the clock
MaxTime == 3
\* discovery scans the model lets run
MaxScans == 1
\* platform calls of the engagement pass that the platform lets fail
MaxFailures == 1
\* mention scans the model lets run
MaxMonScans == 2
\* mention scans that can be in flight together
MaxScanners == 2
\* threads the posting task creates
MaxPosts == 1
\* threads in a feed handed to the trending ranking
MaxItems == 3
\* restarts of the process
MaxRestarts == 1
\* invocations of the REPLY_ARENA_THREAD and QUOTE_ARENA_THREAD actions
MaxActionRuns == 1

(***************************************************************************)
(* Program constants; the clock counts hours                               *)
(***************************************************************************)
\* const hourMs = 60 * 60 * 1000
hourMs == 1
\* const maxAge = 48 * 60 * 60 * 1000
maxAge == 48

(***************************************************************************)
(* The platform's content, as the feeds return it                          *)
(***************************************************************************)
Threads == {"t1", "t2"}

\* the threads of all feeds: those of Threads, and two of other authors that
\* only the ranking of a feed page is applied to
Posts == Threads \cup {"t3", "t4"}

userHandle ==
  [t \in Posts |-> CASE t = "t1" -> "Alice" [] t = "t2" -> "alice"
                      [] t = "t3" -> "bob" [] OTHER -> "Carol"]

\* String.prototype.toLowerCase on the handles in use
toLowerCase(h) == IF h = "Alice" THEN "alice" ELSE IF h = "Carol" THEN "carol" ELSE h

likeCount == [t \in Posts |-> CASE t = "t1" -> 3 [] t = "t2" -> 1 [] t = "t3" -> 8
                                [] OTHER -> 1]

repostCount == [t \in Posts |-> IF t = "t1" THEN 1 ELSE 0]

answerCount == [t \in Posts |-> CASE t = "t2" -> 2 [] t = "t3" -> 0 [] OTHER -> 0]

\* follower count the platform reports for a (lower-cased) handle; none for bob
followerCounts == [h \in {"alice", "carol"} |-> IF h = "alice" THEN 90 ELSE 990]

\* 1000 * Math.log10(n) for the arguments in use (10, 100, 1000)
log10Milli(n) == IF n = 10 THEN 1000 ELSE IF n = 100 THEN 2000 ELSE 3000

\* pages a feed can return
FeedPages == {<<>>, <<"t2">>, <<"t1", "t2">>, <<"t2", "t1">>}

Feeds == <<"trending">>

(***************************************************************************)
(* Configuration (environment.ts)                                          *)
(***************************************************************************)
Categories == {"likes", "reposts", "replies", "follows"}

\* config.maxLikesPerHour, maxRepostsPerHour, maxRepliesPerHour, maxFollowsPerHour
maxPerHour == [likes |-> 2, reposts |-> 1, replies |-> 1, follows |-> 1]

minFollowers == 0

targetUsers == {}

maxEngagementsPerRun == 5

Actions == {"like", "repost", "reply", "follow", "quote"}

\* what evaluateEngagementCandidate can return: null (model failure, unparsable
\* or malformed output) or a decision {action, rationale, replyDraft?}
Null == [action |-> "null", replyDraft |-> FALSE]

Decisions ==
  {Null}
  \cup [action : {"like", "repost", "follow", "none", "other"}, replyDraft : {FALSE}]
  \cup [action : {"reply", "quote"}, replyDraft : BOOLEAN]

VARIABLES
  now,                    \* Date.now()
  engagementCounters,     \* ArenaService.engagementCounters
  engagedThreads,         \* ArenaService.engagedThreads (a Map, as its set of entries)
  lastDiscoverySnapshots, \* ArenaService.lastDiscoverySnapshots
  scans,                  \* discovery scans run so far
  engPc,                  \* where the engagement task is: "timer" (armed), "oracle",
                          \* "call" (platform call in flight), "log", "next"
                          \* (candidate skipped, loop about to go on)
  engCandidates,          \* candidates of the running pass
  engIdx,                 \* index of the candidate being handled
  engAction,              \* action of the platform call in flight
  discPc,                 \* where the discovery task is: "timer", "fetch", "save"
  discFeed,               \* index in the configured feeds of the feed being scanned
  discLast,               \* what the discovery scan did last, and for which feed
  engLast,                \* what the engagement pass did with its last candidate
  granted,                \* per category: attempts that passed the budget gate
                          \* since the counter's last reset
  executed,               \* per category: platform actions that succeeded since the
                          \* counter's last reset
  execLog,                \* per category: times of the actions executed in the last hour
  failures,               \* failed platform calls so far
  passLog,                \* the threads of the platform actions executed by the
                          \* engagement pass under way, or by the last one
  processedMentions,      \* ArenaMentionMonitorService.processedMentions
  repliedThreads,         \* ArenaMentionMonitorService.repliedThreads
  monPc,                  \* per scan in flight, where it is: "idle" (none), "store"
                          \* (storeMention pending), "agent" (thread fetch and reply
                          \* generation pending), "reply" (reply in flight)
  monQueue,               \* per scan: its new mentions while they are stored, then
                          \* those processMentions has still to handle, the one in
                          \* hand first
  monScans,               \* mention scans run so far
  monStored,              \* per scan: how many of its new mentions storeMention has
                          \* been called for
  evaluated,              \* per notification: the scans that handed it to
                          \* processMentions
  monLast,                \* what processMentions did last, and with which notification
  dropped,                \* the fetched notifications the filter of the last scan
                          \* left out
  memories,               \* the arena_mention memories of the runtime's message
                          \* manager: they outlive the process
  restarts,               \* restarts of the process so far
  quotePc,                \* thread of the QUOTE_ARENA_THREAD call in flight, or "none"
  actionRuns,             \* invocations of the two actions so far
  posted,                 \* per thread: replies and quotes posted to the platform
  stopping,               \* ArenaService.stopping
  sched,                  \* per task of ArenaService: timers armed (postTimer,
                          \* discoveryTimer, engagementTimer) and task bodies in flight
  dryRun,                 \* config.dryRun
  maxRun,                 \* config.maxEngagementsPerRun
  created,                \* threads the posting task has created on the platform
  postPc,                 \* where the posting task is: "timer", "generate"
                          \* (generateBlock pending), "create" (createThread in flight)
  trendInput,             \* threads handed to detectTrendingThreads
  trendResult,            \* what detectTrendingThreads returned for them
  intervals,              \* config.engagementIntervalMin, engagementIntervalMax,
                          \* engagementInterval
  armedDelay,             \* minutes and delay that scheduleNextEngagement last computed
  topInput,               \* a feed page with the configuration it is ranked under
  topResult,              \* the topThreads that runDiscoveryScan computed for it
  scanInput,              \* the pages of notifications one scan fetches, and the
                          \* processed set it starts with
  scanResult,             \* the groups scanMentions forms of them and its newMentions
  timers                  \* per monitor (mention, trending): isRunning, whether
                          \* intervalId is set, where the first-scan timeout of
                          \* startMonitoring is, whether stop() has returned, and
                          \* the scans started so far

engVars ==
  <<engagementCounters, engagedThreads, engPc, engCandidates, engIdx, engAction>>

ghostVars == <<engLast, granted, executed, execLog, failures, passLog>>

discVars == <<lastDiscoverySnapshots, scans, discPc, discFeed, discLast>>

monVars ==
  <<processedMentions, repliedThreads, monPc, monQueue, monScans, monStored, evaluated,
    monLast, dropped, memories, restarts>>

actVars == <<quotePc, actionRuns>>

agentVars == <<monVars, actVars>>

otherVars == <<agentVars, posted>>

utilVars == <<intervals, armedDelay, topInput, topResult, scanInput, scanResult, timers>>

trendVars == <<trendInput, trendResult, utilVars>>

configVars == <<dryRun, maxRun>>

restVars == <<stopping, configVars, created, postPc, trendVars>>

schedVars == <<sched, restVars>>

vars == <<now, discVars, engVars, ghostVars, otherVars, schedVars>>

(***************************************************************************)
(* The Map of engaged threads                                              *)
(***************************************************************************)
\* `${threadId}:${action}`
MapKey(threadId, action) == <<threadId, action>>

MapHas(m, key) == \E e \in m : e.key = key

MapGet(m, key) == CHOOSE e \in m : e.key = key

MapDelete(m, key) == {e \in m : e.key # key}

\* Map.prototype.set adding an entry without replacing the key's
MapSet_adding(m, key, value) ==
  m \cup {[key |-> key, action |-> value.action, timestamp |-> value.timestamp,
           author |-> value.author]}

\* Map.prototype.set keeping the entry the key has
MapSet_keeping(m, key, value) ==
  IF MapHas(m, key) THEN m
  ELSE m \cup {[key |-> key, action |-> value.action, timestamp |-> value.timestamp,
                author |-> value.author]}

\* Map.prototype.set: the entry of the key is replaced
MapSet(m, key, value) ==
  {e \in m : e.key # key}
    \cup {[key |-> key, action |-> value.action, timestamp |-> value.timestamp,
           author |-> value.author]}

\* the soft cap of recordEngagement's cleanup
softCap == 3

\* hasAlreadyEngaged with the test of the age inverted
hasAlreadyEngaged_age_inverted(m, threadId, action, t) ==
  LET key == MapKey(threadId, action) IN
  IF ~MapHas(m, key) THEN FALSE
  ELSE IF t - MapGet(m, key).timestamp <= maxAge THEN FALSE
  ELSE TRUE

\* hasAlreadyEngaged: its result
hasAlreadyEngaged(m, threadId, action, t) ==
  LET key == MapKey(threadId, action) IN
  IF ~MapHas(m, key) THEN FALSE
  ELSE IF t - MapGet(m, key).timestamp > maxAge THEN FALSE
  ELSE TRUE

\* hasAlreadyEngaged: the map it leaves (an expired entry is deleted)
hasAlreadyEngagedMap(m, threadId, action, t) ==
  LET key == MapKey(threadId, action) IN
  IF MapHas(m, key) /\ t - MapGet(m, key).timestamp > maxAge
  THEN MapDelete(m, key)
  ELSE m

\* recordEngagement with a cleanup that keeps the newest entries only
recordEngagement_evicting(m, threadId, action, author, t) ==
  LET m1 == MapSet(m, MapKey(threadId, action),
                   [action |-> action, timestamp |-> t, author |-> author])
  IN IF Cardinality(m1) > softCap
     THEN {e \in m1 : e.timestamp = t}
     ELSE m1

\* recordEngagement: the map it leaves
recordEngagement(m, threadId, action, author, t) ==
  LET m1 == MapSet(m, MapKey(threadId, action),
                   [action |-> action, timestamp |-> t, author |-> author])
  IN IF Cardinality(m1) > softCap
     THEN {e \in m1 : ~(t - e.timestamp > maxAge)}
     ELSE m1

(***************************************************************************)
(* The budget counters                                                     *)
(***************************************************************************)
\* resetIfNeeded without its test of the window
resetIfNeeded_always(counters, key, t) ==
  [counters EXCEPT ![key] = [count |-> 0, resetAt |-> t + hourMs]]

resetIfNeeded(counters, key, t) ==
  IF t > counters[key].resetAt
  THEN [counters EXCEPT ![key] = [count |-> 0, resetAt |-> t + hourMs]]
  ELSE counters

\* the counters after the four resetIfNeeded calls of exceededEngagementBudget
resetAll(counters, t) ==
  resetIfNeeded(
    resetIfNeeded(
      resetIfNeeded(
        resetIfNeeded(counters, "likes", t), "reposts", t), "replies", t),
    "follows", t)

\* exceededEngagementBudget true as soon as one kind is exhausted
exceededEngagementBudget_any(counters) ==
  \/ counters["likes"].count >= maxPerHour["likes"]
  \/ counters["reposts"].count >= maxPerHour["reposts"]
  \/ counters["replies"].count >= maxPerHour["replies"]
  \/ counters["follows"].count >= maxPerHour["follows"]

\* the value exceededEngagementBudget returns, on the counters it has reset
exceededEngagementBudget(counters) ==
  /\ counters["likes"].count >= maxPerHour["likes"]
  /\ counters["reposts"].count >= maxPerHour["reposts"]
  /\ counters["replies"].count >= maxPerHour["replies"]
  /\ counters["follows"].count >= maxPerHour["follows"]

\* the counter an action is charged to
budgetKey(action) ==
  CASE action = "like" -> "likes"
    [] action = "repost" -> "reposts"
    [] action = "reply" -> "replies"
    [] action = "follow" -> "follows"
    [] action = "quote" -> "reposts"

\* the budget test with > for >=
budgetExhausted_off_by_one(counters, action) ==
  counters[budgetKey(action)].count > maxPerHour[budgetKey(action)]

\* the budget test that opens each case of executeEngagementDecision
budgetExhausted(counters, action) ==
  counters[budgetKey(action)].count >= maxPerHour[budgetKey(action)]

\* every action deduplicated on the thread
dedupId_per_thread(threadId, action) == threadId

\* the id an action is deduplicated on: the thread, or for a follow
\* `user:${candidate.author.toLowerCase()}`
dedupId(threadId, action) ==
  IF action = "follow" THEN "user:" \o toLowerCase(userHandle[threadId])
  ELSE threadId

(***************************************************************************)
(* The timers of ArenaService (scheduleNextPost, scheduleNextDiscovery,    *)
(* scheduleNextEngagement, stop)                                           *)
(***************************************************************************)
Tasks == {"post", "discovery", "engagement"}

\* config.enablePost, config.enableDiscovery, config.enableEngagement
enabled == [task \in Tasks |-> TRUE]

\* scheduleNext without its test of this.stopping
scheduleNext_unguarded(e, stop, on) ==
  IF ~on THEN e ELSE [e EXCEPT !.armed = @ + 1]

\* scheduleNextPost, scheduleNextDiscovery, scheduleNextEngagement on the timer
\* state e of their task: nothing when stopping (or when the task is disabled),
\* else one more timer
scheduleNext(e, stop, on) ==
  IF stop \/ ~on THEN e ELSE [e EXCEPT !.armed = @ + 1]

\* fired with the timer left armed
fired_keeping_timer(e) ==
  [e EXCEPT !.inFlight = @ + 1]

\* a timer expires and its callback starts the task body
fired(e) ==
  [armed |-> e.armed - 1, inFlight |-> e.inFlight + 1]

\* the task body returns: the finally block of the timer callback
settled(e, stop, on) ==
  scheduleNext([e EXCEPT !.inFlight = @ - 1], stop, on)

\* thrown without the finally block
thrown_unarmed(e, stop, on) ==
  [e EXCEPT !.inFlight = @ - 1]

\* the task body throws: the catch block of the timer callback logs the error,
\* then the finally block
thrown(e, stop, on) ==
  scheduleNext([e EXCEPT !.inFlight = @ - 1], stop, on)

\* clearTimeout(this.postTimer) etc.: the timer last armed is cancelled
clearTimeout(e) ==
  [e EXCEPT !.armed = IF @ > 0 THEN @ - 1 ELSE 0]

\* what a step of a task from position pc to position pc2 does to its timer
\* state: leaving "timer" is the callback starting the body, reaching "timer"
\* is the body returning
SchedStep(task, pc, pc2) ==
  LET e == sched[task]
      f == IF pc = "timer" THEN fired(e) ELSE e
      g == IF pc2 = "timer" THEN settled(f, stopping, enabled[task]) ELSE f
  IN sched' = [sched EXCEPT ![task] = g]

\* the task body leaves with an error
SchedThrow(task) ==
  sched' = [sched EXCEPT ![task] = thrown(@, stopping, enabled[task])]

EngSched == SchedStep("engagement", engPc, engPc')

DiscSched == SchedStep("discovery", discPc, discPc')

\* ArenaService.stop
Stop ==
  /\ stopping' = TRUE
  /\ sched' = [task \in Tasks |-> clearTimeout(sched[task])]
  /\ UNCHANGED <<now, discVars, engVars, ghostVars, otherVars, configVars, created, postPc,
                 trendVars>>

\* the post timer fires: publishScheduledBlock up to generateBlock
PostTimerFires ==
  /\ postPc = "timer"
  /\ sched["post"].armed > 0
  /\ created < MaxPosts
  /\ postPc' = "generate"
  /\ SchedStep("post", postPc, postPc')
  /\ UNCHANGED <<now, discVars, engVars, ghostVars, otherVars, stopping, configVars, created,
                 trendVars>>

\* generateBlock returns: with dryRun the body returns, else createThread is called
GenerateReturns ==
  /\ postPc = "generate"
  /\ postPc' = IF dryRun THEN "timer" ELSE "create"
  /\ SchedStep("post", postPc, postPc')
  /\ UNCHANGED <<now, discVars, engVars, ghostVars, otherVars, stopping, configVars, created,
                 trendVars>>

\* client.createThread returns: the thread is on the platform
CreateThreadReturns ==
  /\ postPc = "create"
  /\ created' = created + 1
  /\ postPc' = "timer"
  /\ SchedStep("post", postPc, postPc')
  /\ UNCHANGED <<now, discVars, engVars, ghostVars, otherVars, stopping, configVars, trendVars>>

\* generateBlock or client.createThread throws
PostFails ==
  /\ postPc \in {"generate", "create"}
  /\ postPc' = "timer"
  /\ SchedThrow("post")
  /\ UNCHANGED <<now, discVars, engVars, ghostVars, otherVars, stopping, configVars, created,
                 trendVars>>

Posting ==
  \/ PostTimerFires
  \/ GenerateReturns
  \/ CreateThreadReturns
  \/ PostFails

(***************************************************************************)
(* The engagement pass (runEngagementPass, executeEngagementDecision)      *)
(***************************************************************************)
Min(a, b) == IF a < b THEN a ELSE b

\* lastDiscoverySnapshots.find((s) => s.topThreads.length > 0): its index, 0 if none
findSnapshot(snapshots) ==
  IF \E i \in 1..Len(snapshots) : Len(snapshots[i].topThreads) > 0
  THEN CHOOSE i \in 1..Len(snapshots) :
         /\ Len(snapshots[i].topThreads) > 0
         /\ \A j \in 1..(i - 1) : Len(snapshots[j].topThreads) = 0
  ELSE 0

\* The for loop of runEngagementPass from candidate i up to its next await:
\* past the last candidate the pass completes; otherwise exceededEngagementBudget
\* resets the counters and either breaks the loop or the oracle is called.
LoopFrom(i, cands, counters, t) ==
  IF i > Len(cands)
  THEN [pc |-> "timer", idx |-> 0, counters |-> counters]
  ELSE IF exceededEngagementBudget(resetAll(counters, t))
  THEN [pc |-> "timer", idx |-> 0, counters |-> resetAll(counters, t)]
  ELSE [pc |-> "oracle", idx |-> i, counters |-> resetAll(counters, t)]

\* the per-window ghost counters follow the resets of LoopFrom
GhostReset(g, i, cands, counters, t) ==
  IF i > Len(cands) THEN g
  ELSE [k \in Categories |-> IF t > counters[k].resetAt THEN 0 ELSE g[k]]

NoEvent == [ev |-> "none", id |-> "none", action |-> "none"]

\* what the loop of runEngagementPass does at candidate i of cands when it does
\* not go on to the oracle: it breaks on the exhausted budgets with candidate
\* i not looked at, or it is at its end
BreakEvent(i, cands, last) ==
  IF i <= Len(cands) /\ LoopFrom(i, cands, engagementCounters, now).pc = "timer"
  THEN [ev |-> "budget_break", id |-> cands[i], action |-> "none"]
  ELSE last

\* the engagement task goes on from candidate i of cands
Continue(i, cands) ==
  LET r == LoopFrom(i, cands, engagementCounters, now) IN
  /\ engPc' = r.pc
  /\ engIdx' = r.idx
  /\ engagementCounters' = r.counters
  /\ engCandidates' = IF r.pc = "timer" THEN <<>> ELSE cands
  /\ granted' = GhostReset(granted, i, cands, engagementCounters, now)
  /\ executed' = GhostReset(executed, i, cands, engagementCounters, now)

\* The engagement timer fires: runEngagementPass up to its first oracle call.
EngagementTimerFires ==
  /\ engPc = "timer"
  /\ sched["engagement"].armed > 0
  /\ LET s == findSnapshot(lastDiscoverySnapshots) IN
     IF s = 0
     THEN UNCHANGED <<engagementCounters, engPc, engCandidates, engIdx, granted, executed,
                      engLast>>
     ELSE LET top == lastDiscoverySnapshots[s].topThreads
          IN /\ Continue(1, SubSeq(top, 1, Min(5, Len(top))))
             /\ engLast' = BreakEvent(1, SubSeq(top, 1, Min(5, Len(top))), engLast)
  /\ passLog' = <<>>
  /\ UNCHANGED <<otherVars, now, discVars, engagedThreads, engAction, execLog, failures>>
  /\ EngSched
  /\ UNCHANGED restVars

\* the draft test left out of the quote case
needsDraft_reply_only(a) == a = "reply"

\* the cases of executeEngagementDecision that return on !decision.replyDraft
needsDraft(a) == a \in {"reply", "quote"}

\* the current candidate is done with, for reason ev: executeEngagementDecision
\* has returned, or the loop body has reached its continue
Skip(ev, a) ==
  /\ engPc' = "next"
  /\ engLast' = [ev |-> ev, id |-> engCandidates[engIdx], action |-> a]
  /\ UNCHANGED <<engagementCounters, engCandidates, engIdx, engAction, granted, executed>>

\* The oracle call of the current candidate returns d: the rest of the loop body
\* and executeEngagementDecision up to the platform call.
OracleReturns(d) ==
  /\ engPc = "oracle"
  /\ LET id == engCandidates[engIdx]
         a == d.action
     IN
     CASE a = "null" -> Skip("oracle_null", a) /\ UNCHANGED engagedThreads
       [] a = "none" -> Skip("skip_none", a) /\ UNCHANGED engagedThreads
       [] a = "other" ->
            \* the default case: await logEngagement("skip", ...)
            /\ engPc' = "log"
            /\ engLast' = [ev |-> "skip_default", id |-> id, action |-> a]
            /\ UNCHANGED <<engagementCounters, engagedThreads, engCandidates, engIdx,
                           engAction, granted, executed>>
       [] a \in Actions ->
            IF budgetExhausted(engagementCounters, a)
            THEN Skip("skip_budget", a) /\ UNCHANGED engagedThreads
            ELSE IF hasAlreadyEngaged(engagedThreads, dedupId(id, a), a, now)
            THEN /\ Skip("skip_dedup", a)
                 /\ engagedThreads' =
                      hasAlreadyEngagedMap(engagedThreads, dedupId(id, a), a, now)
            ELSE IF needsDraft(a) /\ ~d.replyDraft
            THEN /\ Skip("skip_nodraft", a)
                 /\ engagedThreads' =
                      hasAlreadyEngagedMap(engagedThreads, dedupId(id, a), a, now)
            ELSE /\ engPc' = "call"
                 /\ engAction' = a
                 /\ engagedThreads' =
                      hasAlreadyEngagedMap(engagedThreads, dedupId(id, a), a, now)
                 /\ granted' = [granted EXCEPT ![budgetKey(a)] = @ + 1]
                 /\ UNCHANGED <<engagementCounters, engCandidates, engIdx, executed,
                                engLast>>
  /\ UNCHANGED <<otherVars, now, discVars, execLog, failures, passLog>>
  /\ EngSched
  /\ UNCHANGED restVars

\* The platform call resolves: the counter is incremented and the engagement
\* recorded, then logEngagement is awaited.
CallSucceeds ==
  /\ engPc = "call"
  /\ LET id == engCandidates[engIdx]
         a == engAction
         k == budgetKey(a)
     IN /\ engagementCounters' = [engagementCounters EXCEPT ![k].count = @ + 1]
        /\ engagedThreads' =
             recordEngagement(engagedThreads, dedupId(id, a), a, userHandle[id], now)
        /\ executed' = [executed EXCEPT ![k] = @ + 1]
        /\ execLog' = [execLog EXCEPT ![k] = Append(@, now)]
        /\ engLast' = [ev |-> "executed", id |-> id, action |-> a]
  /\ engPc' = "log"
  /\ engAction' = "none"
  /\ posted' = IF engAction \in {"reply", "quote"}
               THEN [posted EXCEPT ![engCandidates[engIdx]][engAction] = @ + 1]
               ELSE posted
  /\ passLog' = Append(passLog, engCandidates[engIdx])
  /\ UNCHANGED <<agentVars, now, discVars, engCandidates, engIdx, granted, failures>>
  /\ EngSched
  /\ UNCHANGED restVars

\* CallFails with the engagement recorded before the error leaves
CallFails_recording ==
  /\ engPc = "call"
  /\ failures < MaxFailures
  /\ failures' = failures + 1
  /\ UNCHANGED passLog
  /\ engPc' = "timer"
  /\ engIdx' = 0
  /\ engCandidates' = <<>>
  /\ engAction' = "none"
  /\ engLast' = [ev |-> "call_failed", id |-> engCandidates[engIdx], action |-> engAction]
  /\ engagedThreads' =
       recordEngagement(engagedThreads, dedupId(engCandidates[engIdx], engAction),
                        engAction, userHandle[engCandidates[engIdx]], now)
  /\ UNCHANGED <<otherVars, now, discVars, engagementCounters, granted, executed, execLog>>
  /\ SchedThrow("engagement")
  /\ UNCHANGED restVars

\* The platform call rejects: the error leaves executeEngagementDecision and the
\* for loop of runEngagementPass, is logged by the timer callback of
\* scheduleNextEngagement, and the next pass is armed.
CallFails ==
  /\ engPc = "call"
  /\ failures < MaxFailures
  /\ failures' = failures + 1
  /\ UNCHANGED passLog
  /\ engPc' = "timer"
  /\ engIdx' = 0
  /\ engCandidates' = <<>>
  /\ engAction' = "none"
  /\ engLast' = [ev |-> "call_failed", id |-> engCandidates[engIdx], action |-> engAction]
  /\ UNCHANGED <<otherVars, now, discVars, engagementCounters, engagedThreads, granted, executed,
                 execLog>>
  /\ SchedThrow("engagement")
  /\ UNCHANGED restVars

\* the loop of runEngagementPass goes on after a skipped candidate
LoopNext ==
  /\ engPc = "next"
  /\ Continue(engIdx + 1, engCandidates)
  /\ engLast' = BreakEvent(engIdx + 1, engCandidates, NoEvent)
  /\ UNCHANGED <<otherVars, now, discVars, engagedThreads, engAction, execLog, failures,
                 passLog>>
  /\ EngSched
  /\ UNCHANGED restVars

\* logEngagement returns (it catches its own errors): the loop goes on
LogReturns ==
  /\ engPc = "log"
  /\ Continue(engIdx + 1, engCandidates)
  /\ engLast' = BreakEvent(engIdx + 1, engCandidates, NoEvent)
  /\ UNCHANGED <<otherVars, now, discVars, engagedThreads, engAction, execLog, failures,
                 passLog>>
  /\ EngSched
  /\ UNCHANGED restVars

(***************************************************************************)
(* The discovery scan (runDiscoveryScan, extractTopThreads)                *)
(***************************************************************************)
\* followerCounts.get(handle.toLowerCase()) ?? 0
followersOf(t) ==
  IF toLowerCase(userHandle[t]) \in DOMAIN followerCounts
  THEN followerCounts[toLowerCase(userHandle[t])]
  ELSE 0

\* the filter of runDiscoveryScan with the allow-list targets and the floor
\* floor: matchesTarget && meetsFollowers
passesFilterWith(t, targets, floor) ==
  /\ (targets = {} \/ toLowerCase(userHandle[t]) \in targets)
  /\ followersOf(t) >= floor

\* the filter of runDiscoveryScan under the configuration of the service
passesFilter(t) == passesFilterWith(t, targetUsers, minFollowers)

\* 2000 * (likeCount + repostCount * 2 + answerCount * 1.5) * log10(followerCount + 10)
score(t) ==
  (2 * likeCount[t] + 4 * repostCount[t] + 3 * answerCount[t])
    * log10Milli(followersOf(t) + 10)

RECURSIVE FilterThreads(_, _, _, _)
\* feed.threads.filter(...) with the allow-list targets and the floor floor
FilterThreads(seq, i, targets, floor) ==
  IF i > Len(seq) THEN <<>>
  ELSE IF passesFilterWith(seq[i], targets, floor)
  THEN <<seq[i]>> \o FilterThreads(seq, i + 1, targets, floor)
  ELSE FilterThreads(seq, i + 1, targets, floor)

\* Array.prototype.filter with passesFilter
SelectSeqBy(seq, i) == FilterThreads(seq, i, targetUsers, minFollowers)

\* x inserted in a sequence sorted by (b.score - a.score), after its equals
InsertDesc(sorted, x) ==
  LET n == Cardinality({i \in 1..Len(sorted) : score(sorted[i]) >= score(x)})
  IN SubSeq(sorted, 1, n) \o <<x>> \o SubSeq(sorted, n + 1, Len(sorted))

RECURSIVE SortDesc(_, _)
\* Array.prototype.sort((a, b) => b.score - a.score), a stable sort
SortDesc(seq, i) ==
  IF i = 0 THEN <<>> ELSE InsertDesc(SortDesc(seq, i - 1), seq[i])

extractTopThreads(threads, perRun) ==
  LET sorted == SortDesc(threads, Len(threads))
      k == IF perRun # 0 THEN perRun ELSE 5
  IN SubSeq(sorted, 1, Min(k, Len(sorted)))

\* what a discovery scan logs of a feed
ScanEvent(ev, feed) == [ev |-> ev, feed |-> feed]

NoScanEvent == ScanEvent("none", "none")

\* the discovery timer fires, for at most n scans: runDiscoveryScan up to the
\* first getFeed
DiscoveryTimerFiresWithin(n) ==
  /\ discPc = "timer"
  /\ sched["discovery"].armed > 0
  /\ scans < n
  /\ scans' = scans + 1
  /\ discPc' = "fetch"
  /\ discFeed' = 1
  /\ discLast' = ScanEvent("scan_starting", "none")
  /\ UNCHANGED <<otherVars, now, lastDiscoverySnapshots, engVars, ghostVars>>
  /\ DiscSched
  /\ UNCHANGED restVars

DiscoveryTimerFires == DiscoveryTimerFiresWithin(MaxScans)

\* the scan ends at the feed in hand
NextFeedOf_aborting(feeds) ==
  discPc' = "timer" /\ discFeed' = 0

\* for (const feedKey of feeds): the scan goes on with the feed after discFeed
NextFeedOf(feeds) ==
  IF discFeed < Len(feeds)
  THEN discPc' = "fetch" /\ discFeed' = discFeed + 1
  ELSE discPc' = "timer" /\ discFeed' = 0

NextFeed == NextFeedOf(Feeds)

\* the length that the history of snapshots is cut to
historySize == 10

\* the history with the snapshot put in place of the most recent one it holds
pushSnapshot_replacing(history, snapshot) ==
  IF Len(history) < historySize
  THEN <<snapshot>> \o history
  ELSE <<snapshot>> \o Tail(history)

\* lastDiscoverySnapshots.unshift(snapshot) and .slice(0, 10)
pushSnapshot(history, snapshot) ==
  LET unshifted == <<snapshot>> \o history
  IN SubSeq(unshifted, 1, Min(historySize, Len(unshifted)))

\* getFeed returns a page of feeds[discFeed]: filter, score, keep the top threads,
\* put the snapshot at the head of the history and cut the history to 10
FeedReturnsOf(feeds, page) ==
  /\ discPc = "fetch"
  /\ LET snapshot == [feedKey |-> feeds[discFeed],
                      scanned |-> Len(page),
                      topThreads |-> extractTopThreads(SelectSeqBy(page, 1), maxRun)]
     IN lastDiscoverySnapshots' = pushSnapshot(lastDiscoverySnapshots, snapshot)
  /\ discPc' = "save"
  /\ discLast' = ScanEvent("snapshot", feeds[discFeed])
  /\ UNCHANGED <<otherVars, now, scans, discFeed, engVars, ghostVars>>
  /\ DiscSched
  /\ UNCHANGED restVars

FeedReturns(page) == FeedReturnsOf(Feeds, page)

\* getFeed (or resolveFollowerCounts) throws for feeds[discFeed]: logged, the
\* next feed is scanned
FeedFailsOf(feeds) ==
  /\ discPc = "fetch"
  /\ NextFeedOf(feeds)
  /\ discLast' = ScanEvent("scan_failed_for_feed", feeds[discFeed])
  /\ UNCHANGED <<otherVars, now, lastDiscoverySnapshots, scans, engVars, ghostVars>>
  /\ DiscSched
  /\ UNCHANGED restVars

FeedFails == FeedFailsOf(Feeds)

\* saveDiscoverySnapshot settles for feeds[discFeed]: the memories are created
\* (ok), or the failure is caught and logged; the results of the feed are logged
SaveSettlesOf(feeds, ok) ==
  /\ discPc = "save"
  /\ NextFeedOf(feeds)
  /\ discLast' = ScanEvent(IF ok THEN "results" ELSE "persist_failed_results",
                           feeds[discFeed])
  /\ UNCHANGED <<otherVars, now, lastDiscoverySnapshots, scans, engVars, ghostVars>>
  /\ DiscSched
  /\ UNCHANGED restVars

SaveSettles == \E ok \in BOOLEAN : SaveSettlesOf(Feeds, ok)

(***************************************************************************)
(* The clock                                                               *)
(***************************************************************************)
\* entries of the log that a trailing hour ending at t still holds
Trailing(log, t) == SelectSeq(log, LAMBDA x : x >= t - hourMs)

Tick ==
  /\ now < MaxTime
  /\ now' = now + 1
  /\ execLog' = [k \in Categories |-> Trailing(execLog[k], now + 1)]
  /\ UNCHANGED <<otherVars, discVars, engVars, engLast, granted, executed, failures,
                 passLog>>
  /\ UNCHANGED schedVars

(***************************************************************************)
(* The mention monitor: scanMentions and processMentions                   *)
(***************************************************************************)
Notifications == {"n1", "n2"}

\* the notifications in the order of the feed
NotificationOrder == <<"n1", "n2">>

\* the thread id processMentions extracts from a notification's link
\* (both notifications are on thread t1: n1 by a /thread/ link, n2, a reply
\* notification, by a /nested/ link)
linkThreadId == [n \in Notifications |-> "t1"]

\* the thread id storeMention extracts from a notification's link: it knows
\* /thread/ links only
storedThreadId == [n \in Notifications |-> IF n = "n1" THEN "t1" ELSE "none"]

\* the memory storeMention creates for notification n
processedMention(n) ==
  [notificationId |-> n, threadId |-> storedThreadId[n], replied |-> FALSE]

\* messageManager.createMemory of storeMention
storeMemory(mem, n) == mem \cup {processedMention(n)}

\* the memory update of markAsReplied: the memory of the notification, if there
\* is one, is removed and created again with replied set
markMemoryReplied(mem, n) ==
  {IF m.notificationId = n THEN [m EXCEPT !.replied = TRUE] ELSE m : m \in mem}

\* loadProcessedMentions: the processed set and the replied set it builds
LoadedProcessed(mem) == {m.notificationId : m \in mem}

LoadedReplied(mem) == {m.threadId : m \in {x \in mem : x.replied /\ x.threadId # "none"}}

\* the scans that can be in flight together: nothing in startMonitoring or
\* forceScan keeps a scan from starting while another one runs
Scanners == 1..MaxScanners

\* hasRepliedToThread answering no for every thread
hasRepliedToThread_never(replied, threadId) == FALSE

hasRepliedToThread(replied, threadId) == threadId \in replied

\* this.processedMentions.add without effect
addProcessed_forgetting(processed, id) == processed

\* this.processedMentions.add(id)
addProcessed(processed, id) == processed \cup {id}

\* newMentionsOf without the test of the processed set
newMentionsOf_unfiltered(ns, processed) ==
  SelectSeq(NotificationOrder, LAMBDA n : n \in ns)

\* the filter of scanMentions: the fetched notifications ns that are not in the
\* processed set, in the order of the feed
newMentionsOf(ns, processed) ==
  SelectSeq(NotificationOrder, LAMBDA n : n \in ns /\ n \notin processed)

\* processMentions from the head of queue up to its next await: the mentions
\* without a thread id or on a thread already replied to are passed over
RECURSIVE NextMention(_, _)
NextMention(queue, replied) ==
  IF queue = <<>> THEN <<>>
  ELSE IF linkThreadId[Head(queue)] = "none" THEN NextMention(Tail(queue), replied)
  ELSE IF hasRepliedToThread(replied, linkThreadId[Head(queue)])
       THEN NextMention(Tail(queue), replied)
  ELSE queue

\* the for loop of processMentions of scan s going on with queue; at its end
\* scanMentions cleans up and completes
MonContinue(s, queue, replied) ==
  /\ monQueue' = [monQueue EXCEPT ![s] = NextMention(queue, replied)]
  /\ monPc' = [monPc EXCEPT
                 ![s] = IF NextMention(queue, replied) = <<>> THEN "idle" ELSE "agent"]

\* A scan (the delayed first scan, a scan of the interval, forceScan) has
\* fetched the notifications ns, already filtered for mentions and replies: the
\* new ones are kept, and storeMention is called for the first of them. A failed
\* fetch is a scan of none. The scan takes the first free place of Scanners.
ScanMentions(s, ns) ==
  /\ monPc[s] = "idle"
  /\ \A r \in Scanners : r < s => monPc[r] # "idle"
  /\ monScans < MaxMonScans
  /\ monScans' = monScans + 1
  /\ LET newMentions == newMentionsOf(ns, processedMentions)
     IN IF newMentions = <<>>
        THEN UNCHANGED <<processedMentions, monPc, monQueue, monStored, memories>>
        ELSE /\ processedMentions' = addProcessed(processedMentions, newMentions[1])
             /\ memories' = storeMemory(memories, newMentions[1])
             /\ monQueue' = [monQueue EXCEPT ![s] = newMentions]
             /\ monStored' = [monStored EXCEPT ![s] = 1]
             /\ monPc' = [monPc EXCEPT ![s] = "store"]
  /\ dropped' = ns \cap processedMentions
  /\ UNCHANGED <<now, discVars, engVars, ghostVars, repliedThreads, evaluated, monLast,
                 actVars, posted, schedVars, restarts>>

\* storeMention of scan s settles: the next new mention is stored, or, all
\* stored, processMentions is called with the new mentions
StoreSettles(s) ==
  /\ monPc[s] = "store"
  /\ IF monStored[s] < Len(monQueue[s])
     THEN /\ processedMentions' =
               addProcessed(processedMentions, monQueue[s][monStored[s] + 1])
          /\ memories' = storeMemory(memories, monQueue[s][monStored[s] + 1])
          /\ monStored' = [monStored EXCEPT ![s] = @ + 1]
          /\ UNCHANGED <<monPc, monQueue, evaluated>>
     ELSE /\ evaluated' =
               [n \in Notifications |->
                  IF \E i \in 1..Len(monQueue[s]) : monQueue[s][i] = n
                  THEN evaluated[n] + 1 ELSE evaluated[n]]
          /\ MonContinue(s, monQueue[s], repliedThreads)
          /\ monStored' = [monStored EXCEPT ![s] = 0]
          /\ UNCHANGED <<processedMentions, memories>>
  /\ UNCHANGED <<now, discVars, engVars, ghostVars, repliedThreads, monScans, monLast,
                 dropped, actVars, posted, schedVars, restarts>>

\* client.getThread and processAgentMention settle for the mention scan s has
\* in hand
MentionAgentReturns(s, outcome) ==
  /\ monPc[s] = "agent"
  /\ CASE outcome = "thread_error" ->
            /\ processedMentions' = addProcessed(processedMentions, Head(monQueue[s]))
            /\ MonContinue(s, Tail(monQueue[s]), repliedThreads)
       [] outcome = "no_reply" ->
            /\ MonContinue(s, Tail(monQueue[s]), repliedThreads)
            /\ UNCHANGED processedMentions
       [] outcome = "reply" ->
            /\ monPc' = [monPc EXCEPT ![s] = "reply"]
            /\ UNCHANGED <<processedMentions, monQueue>>
  /\ monLast' = [ev |-> outcome, id |-> Head(monQueue[s])]
  /\ UNCHANGED <<now, discVars, engVars, ghostVars, repliedThreads, monScans, monStored,
                 evaluated, dropped, memories, actVars, posted, schedVars, restarts>>

\* client.replyToThread of scan s resolves; markAsReplied
MentionReplySucceeds(s) ==
  /\ monPc[s] = "reply"
  /\ LET threadId == linkThreadId[Head(monQueue[s])]
     IN /\ posted' = [posted EXCEPT ![threadId].reply = @ + 1]
        /\ repliedThreads' = repliedThreads \cup {threadId}
        /\ MonContinue(s, Tail(monQueue[s]), repliedThreads \cup {threadId})
        /\ memories' = markMemoryReplied(memories, Head(monQueue[s]))
  /\ monLast' = [ev |-> "replied", id |-> Head(monQueue[s])]
  /\ UNCHANGED <<now, discVars, engVars, ghostVars, processedMentions, monScans,
                 monStored, evaluated, dropped, actVars, schedVars, restarts>>

\* client.replyToThread of scan s rejects: caught in the loop, which goes on
MentionReplyFails(s) ==
  /\ monPc[s] = "reply"
  /\ MonContinue(s, Tail(monQueue[s]), repliedThreads)
  /\ monLast' = [ev |-> "reply_failed", id |-> Head(monQueue[s])]
  /\ UNCHANGED <<now, discVars, engVars, ghostVars, processedMentions, repliedThreads,
                 monScans, monStored, evaluated, dropped, memories, actVars, posted,
                 schedVars, restarts>>

Monitor ==
  \/ \E s \in Scanners, ns \in SUBSET Notifications : ScanMentions(s, ns)
  \/ \E s \in Scanners : StoreSettles(s)
  \/ \E s \in Scanners, outcome \in {"thread_error", "no_reply", "reply"} :
       MentionAgentReturns(s, outcome)
  \/ \E s \in Scanners : MentionReplySucceeds(s)
  \/ \E s \in Scanners : MentionReplyFails(s)

\* The process ends and the services are started again: the scans in flight
\* are gone, the sets of the monitor are new and filled by
\* loadProcessedMentions before the first scan, ArenaService is constructed and
\* initialized again. The memories and what is on the platform stay.
Restart ==
  /\ restarts < MaxRestarts
  /\ restarts' = restarts + 1
  /\ processedMentions' = LoadedProcessed(memories)
  /\ repliedThreads' = LoadedReplied(memories)
  /\ monPc' = [s \in Scanners |-> "idle"]
  /\ monQueue' = [s \in Scanners |-> <<>>]
  /\ monStored' = [s \in Scanners |-> 0]
  /\ quotePc' = "none"
  /\ engagementCounters' = [k \in Categories |-> [count |-> 0, resetAt |-> 0]]
  /\ engagedThreads' = {}
  /\ lastDiscoverySnapshots' = <<>>
  /\ discPc' = "timer"
  /\ discFeed' = 0
  /\ discLast' = NoScanEvent
  /\ engPc' = "timer"
  /\ engCandidates' = <<>>
  /\ engIdx' = 0
  /\ engAction' = "none"
  /\ postPc' = "timer"
  /\ stopping' = FALSE
  /\ sched' = [task \in Tasks |->
                scheduleNext([armed |-> 0, inFlight |-> 0], FALSE, enabled[task])]
  /\ UNCHANGED <<now, scans, ghostVars, monScans, evaluated, monLast, dropped, memories,
                 actionRuns, posted, configVars, created, trendVars>>

\* the scans of a monitor whose interval is longer than its scans: a scan
\* starts when no other is in flight
SequentialMonitor ==
  \/ \E s \in Scanners, ns \in SUBSET Notifications :
       /\ \A r \in Scanners : monPc[r] = "idle"
       /\ ScanMentions(s, ns)
  \/ \E s \in Scanners : StoreSettles(s)
  \/ \E s \in Scanners, outcome \in {"thread_error", "no_reply", "reply"} :
       MentionAgentReturns(s, outcome)
  \/ \E s \in Scanners : MentionReplySucceeds(s)
  \/ \E s \in Scanners : MentionReplyFails(s)

(***************************************************************************)
(* The actions REPLY_ARENA_THREAD and QUOTE_ARENA_THREAD                   *)
(***************************************************************************)
\* REPLY_ARENA_THREAD with a thread id and a content: client.replyToThread is
\* called, and resolves (ok) or rejects
ReplyAction(threadId, ok) ==
  /\ actionRuns < MaxActionRuns
  /\ actionRuns' = actionRuns + 1
  /\ posted' = IF ok THEN [posted EXCEPT ![threadId].reply = @ + 1] ELSE posted
  /\ UNCHANGED <<now, discVars, engVars, ghostVars, monVars, quotePc>>
  /\ UNCHANGED schedVars

\* QUOTE_ARENA_THREAD with a thread id and a content, up to client.quoteThread:
\* a thread the monitor reports as replied to is refused
QuoteActionStarts(threadId) ==
  /\ quotePc = "none"
  /\ actionRuns < MaxActionRuns
  /\ actionRuns' = actionRuns + 1
  /\ quotePc' = IF hasRepliedToThread(repliedThreads, threadId) THEN "none" ELSE threadId
  /\ UNCHANGED <<now, discVars, engVars, ghostVars, monVars, posted>>
  /\ UNCHANGED schedVars

\* client.quoteThread resolves; markAsReplied
QuoteActionSucceeds ==
  /\ quotePc # "none"
  /\ posted' = [posted EXCEPT ![quotePc].quote = @ + 1]
  /\ repliedThreads' = repliedThreads \cup {quotePc}
  /\ quotePc' = "none"
  /\ UNCHANGED <<now, discVars, engVars, ghostVars, processedMentions, monPc, monQueue,
                 monScans, monStored, evaluated, monLast, dropped, memories, restarts,
                 actionRuns>>
  /\ UNCHANGED schedVars

\* client.quoteThread rejects
QuoteActionFails ==
  /\ quotePc # "none"
  /\ quotePc' = "none"
  /\ UNCHANGED <<now, discVars, engVars, ghostVars, monVars, actionRuns, posted>>
  /\ UNCHANGED schedVars

AgentActions ==
  \/ \E threadId \in Threads, ok \in BOOLEAN : ReplyAction(threadId, ok)
  \/ \E threadId \in Threads : QuoteActionStarts(threadId)
  \/ QuoteActionSucceeds
  \/ QuoteActionFails

(***************************************************************************)
(* The service: ArenaService with discovery and engagement enabled         *)
(***************************************************************************)
(***************************************************************************)
(* The trending ranking (detectTrendingThreads)                            *)
(***************************************************************************)
\* The threads a feed may hold. age is now - createdDate in tenths of an hour.
TrendThreads ==
  {[id |-> "a", likeCount |-> 10, repostCount |-> 5, answerCount |-> 2, bookmarkCount |-> 0,
    age |-> 20],
   [id |-> "b", likeCount |-> 4, repostCount |-> 0, answerCount |-> 0, bookmarkCount |-> 0,
    age |-> 5],
   [id |-> "c", likeCount |-> 16, repostCount |-> 0, answerCount |-> 0, bookmarkCount |-> 0,
    age |-> 40],
   [id |-> "d", likeCount |-> 2, repostCount |-> 1, answerCount |-> 0, bookmarkCount |-> 0,
    age |-> 0],
   [id |-> "e", likeCount |-> 2, repostCount |-> 1, answerCount |-> 0, bookmarkCount |-> 0,
    age |-> 1],
   [id |-> "f", likeCount |-> 9, repostCount |-> 9, answerCount |-> 0, bookmarkCount |-> 1,
    age |-> 250],
   [id |-> "g", likeCount |-> 1, repostCount |-> 0, answerCount |-> 1, bookmarkCount |-> 0,
    age |-> 10]}

\* the feeds handed to detectTrendingThreads: up to MaxItems different threads
TrendInputs ==
  {seq \in UNION {[1..n -> TrendThreads] : n \in 0..MaxItems} :
     \A i, j \in 1..Len(seq) : i # j => seq[i] # seq[j]}

\* the options of detectTrendingThreads: its defaults, those of scanFeed, and
\* values handed in by the trending action
TrendingOptions ==
  {[timeWindow |-> 24, minEngagement |-> 3], [timeWindow |-> 24, minEngagement |-> 10],
   [timeWindow |-> 2, minEngagement |-> 3]}

\* detectTrendingThreads not called yet
NoOptions == [timeWindow |-> 0, minEngagement |-> 0]

\* (options?.timeWindow || 24), in hours
timeWindowOf(options) == IF options.timeWindow # 0 THEN options.timeWindow ELSE 24

\* the first filter with an age at the end of the window left out
inTimeWindow_exclusive(t, options) == t.age < timeWindowOf(options) * 10

\* the first filter of detectTrendingThreads: age <= timeWindow, the age in
\* tenths of an hour
inTimeWindow(t, options) == t.age <= timeWindowOf(options) * 10

\* Math.max(age, 0.1), in tenths of an hour
ageHours(t) == IF t.age > 1 THEN t.age ELSE 1

\* totalEngagement without the weights, doubled
totalEngagement_unweighted(t) ==
  2 * (t.likeCount + t.repostCount + t.answerCount + t.bookmarkCount)

\* likeCount * 1 + repostCount * 2 + answerCount * 1.5 + bookmarkCount * 1, doubled
\* to stay in the integers
totalEngagement(t) ==
  2 * t.likeCount + 4 * t.repostCount + 3 * t.answerCount + 2 * t.bookmarkCount

rawEngagement(t) == t.likeCount + t.repostCount + t.answerCount + t.bookmarkCount

\* velocityScore = totalEngagement / ageHours, in tenths
velocityScore(t) == (totalEngagement(t) * 50) \div ageHours(t)

RECURSIVE isqrt(_, _, _)
\* the integer square root of n, looked for between lo and hi
isqrt(n, lo, hi) ==
  IF lo >= hi THEN lo
  ELSE LET mid == (lo + hi + 1) \div 2
       IN IF mid * mid <= n THEN isqrt(n, mid, hi) ELSE isqrt(n, lo, mid - 1)

Cube(x) == x * x * x

\* score = velocityScore * Math.sqrt(totalEngagement), in tenths, rounded down:
\* the square root of totalEngagement^3 / ageHours^2
trendScore(t) ==
  isqrt((Cube(totalEngagement(t)) * 1250) \div (ageHours(t) * ageHours(t)), 0, 40000)

\* b.score - a.score <= 0, exactly: the scores are compared by their squares
scoreAtLeast(a, b) ==
  Cube(totalEngagement(a)) * ageHours(b) * ageHours(b)
    >= Cube(totalEngagement(b)) * ageHours(a) * ageHours(a)

sameScore(a, b) == scoreAtLeast(a, b) /\ scoreAtLeast(b, a)

\* x inserted before the entries of its own score
InsertByScore_unstable(sorted, x) ==
  LET n == Cardinality({i \in 1..Len(sorted) :
                          scoreAtLeast(sorted[i], x) /\ ~sameScore(sorted[i], x)})
  IN SubSeq(sorted, 1, n) \o <<x>> \o SubSeq(sorted, n + 1, Len(sorted))

\* x inserted in a sequence sorted by (b.score - a.score), after the entries of
\* its own score
InsertByScore(sorted, x) ==
  LET n == Cardinality({i \in 1..Len(sorted) : scoreAtLeast(sorted[i], x)})
  IN SubSeq(sorted, 1, n) \o <<x>> \o SubSeq(sorted, n + 1, Len(sorted))

RECURSIVE SortByScore(_, _)
\* Array.prototype.sort((a, b) => b.score - a.score) on the first i entries: a
\* stable sort
SortByScore(seq, i) ==
  IF i = 0 THEN <<>> ELSE InsertByScore(SortByScore(seq, i - 1), seq[i])

detectTrendingThreads(threads, options) ==
  LET inWindow == SelectSeq(threads, LAMBDA t : inTimeWindow(t, options))
      engaged == SelectSeq(inWindow, LAMBDA t : rawEngagement(t) >= options.minEngagement)
      sorted == SortByScore(engaged, Len(engaged))
  IN [i \in 1..Len(sorted) |->
        [thread |-> sorted[i],
         score |-> trendScore(sorted[i]),
         velocityScore |-> velocityScore(sorted[i]),
         rank |-> i]]

\* detectTrendingThreads is called on the feed with options
DetectTrending(options) ==
  /\ trendResult' = [options |-> options,
                     trending |-> detectTrendingThreads(trendInput, options)]
  /\ UNCHANGED <<now, discVars, engVars, ghostVars, otherVars, sched, stopping, configVars,
                 created, postPc, trendInput, utilVars>>

\* the two monitor services
Monitors == {"mention", "trending"}

\* a monitor once its start() has returned: startMonitoring has set isRunning,
\* armed the timeout of the first scan and set intervalId
StartedTimers ==
  [m \in Monitors |->
     [isRunning |-> TRUE, intervalId |-> TRUE, initialTimer |-> "pending",
      stopped |-> FALSE, scans |-> 0]]

\* the state once ArenaService.start and the monitors' constructors have returned,
\* with config.dryRun = dry and config.maxEngagementsPerRun = perRun, and with
\* threads the feed of the trending ranking
InitBase(dry, threads, perRun) ==
  /\ now = 1
  /\ engagementCounters = [k \in Categories |-> [count |-> 0, resetAt |-> 0]]
  /\ engagedThreads = {}
  /\ lastDiscoverySnapshots = <<>>
  /\ scans = 0
  /\ discPc = "timer"
  /\ discFeed = 0
  /\ discLast = NoScanEvent
  /\ engPc = "timer"
  /\ engCandidates = <<>>
  /\ engIdx = 0
  /\ engAction = "none"
  /\ engLast = NoEvent
  /\ granted = [k \in Categories |-> 0]
  /\ executed = [k \in Categories |-> 0]
  /\ execLog = [k \in Categories |-> <<>>]
  /\ failures = 0
  /\ passLog = <<>>
  /\ processedMentions = {}
  /\ repliedThreads = {}
  /\ monPc = [s \in Scanners |-> "idle"]
  /\ monQueue = [s \in Scanners |-> <<>>]
  /\ monScans = 0
  /\ monStored = [s \in Scanners |-> 0]
  /\ evaluated = [n \in Notifications |-> 0]
  /\ monLast = [ev |-> "none", id |-> "none"]
  /\ dropped = {}
  /\ memories = {}
  /\ restarts = 0
  /\ quotePc = "none"
  /\ actionRuns = 0
  /\ posted = [t \in Threads |-> [reply |-> 0, quote |-> 0]]
  /\ stopping = FALSE
  /\ sched = [task \in Tasks |->
               scheduleNext([armed |-> 0, inFlight |-> 0], FALSE, enabled[task])]
  /\ dryRun = dry
  /\ maxRun = perRun
  /\ created = 0
  /\ postPc = "timer"
  /\ trendInput = threads
  /\ trendResult = [options |-> NoOptions, trending |-> <<>>]

\* a setting that is a number
Num(n) == [defined |-> TRUE, value |-> n]

\* a setting that is undefined
Undefined == [defined |-> FALSE, value |-> 0]

\* DEFAULT_ENGAGEMENT_INTERVAL_MIN, _MAX and DEFAULT_ENGAGEMENT_INTERVAL
DefaultIntervals == [min |-> Num(20), max |-> Num(40), fallback |-> Num(30)]

\* no delay computed yet
NoDelay == [minutes |-> 0, delay |-> 0, random |-> 0, armed |-> FALSE]

\* no feed page ranked yet
NoTop == [done |-> FALSE, topThreads |-> <<>>]

\* the configuration of the service, with an empty page
DefaultTopInput ==
  [page |-> <<>>, targets |-> targetUsers, floor |-> minFollowers,
   perRun |-> maxEngagementsPerRun]

\* no notifications fetched
NoScanInput == [page1 |-> <<>>, page2 |-> <<>>, processed |-> {}]

\* no scan has formed its groups yet
NoScanResult ==
  [done |-> FALSE, mentionNotifications |-> <<>>, replyNotifications |-> <<>>,
   newMentions |-> <<>>]

InitWith(dry, threads, perRun) ==
  /\ InitBase(dry, threads, perRun)
  /\ intervals = DefaultIntervals
  /\ armedDelay = NoDelay
  /\ topInput = DefaultTopInput
  /\ topResult = NoTop
  /\ scanInput = NoScanInput
  /\ scanResult = NoScanResult
  /\ timers = StartedTimers

Init == InitWith(FALSE, <<>>, maxEngagementsPerRun)

\* the steps of the service's tasks, with the oracle answering from D and the
\* feeds returning pages of P
Service(D, P) ==
  \/ DiscoveryTimerFires
  \/ \E page \in P : FeedReturns(page)
  \/ FeedFails
  \/ SaveSettles
  \/ EngagementTimerFires
  \/ \E d \in D : OracleReturns(d)
  \/ CallSucceeds
  \/ CallFails
  \/ LoopNext
  \/ LogReturns

\* The service within one hour of its clock, the oracle free in its answers.
Next == Service(Decisions, FeedPages)

Spec == Init /\ [][Next]_vars

\* decisions of the oracle that are charged to the reposts counter, or none
ClockDecisions ==
  {[action |-> "none", replyDraft |-> FALSE],
   [action |-> "repost", replyDraft |-> FALSE],
   [action |-> "quote", replyDraft |-> TRUE]}

\* The service over the hours of its clock, the oracle answering with reposts
\* and quotes, the feed returning both threads.
NextClock == Tick \/ Service(ClockDecisions, {<<"t1", "t2">>})

SpecClock == Init /\ [][NextClock]_vars

\* decisions of the oracle that lead to a reply or a quote, or to nothing
SystemDecisions ==
  {[action |-> "none", replyDraft |-> FALSE],
   [action |-> "reply", replyDraft |-> TRUE],
   [action |-> "quote", replyDraft |-> TRUE]}

\* The agent within one hour of its clock: the service with the oracle
\* answering with replies and quotes and the feed returning one thread, the
\* mention monitor and the two actions.
NextSystem == Service(SystemDecisions, {<<"t2">>}) \/ Monitor \/ AgentActions

SpecSystem == Init /\ [][NextSystem]_vars

\* the three timer-driven tasks and stop, with dryRun either way
SchedulerDecisions ==
  {[action |-> "none", replyDraft |-> FALSE],
   [action |-> "like", replyDraft |-> FALSE]}

NextScheduler == Service(SchedulerDecisions, {<<"t2">>}) \/ Posting \/ Stop

InitScheduler == \E dry \in BOOLEAN : InitWith(dry, <<>>, maxEngagementsPerRun)

SpecScheduler == InitScheduler /\ [][NextScheduler]_vars

\* the scheduled posting task, the engagement pass and the mention monitor, with
\* dryRun either way
NextDryRun == Service(SchedulerDecisions, {<<"t2">>}) \/ Posting \/ Monitor

SpecDryRun == InitScheduler /\ [][NextDryRun]_vars

\* the trending ranking applied to the feeds of TrendInputs
NextTrending == \E options \in TrendingOptions : DetectTrending(options)

InitTrending == \E threads \in TrendInputs : InitWith(FALSE, threads, maxEngagementsPerRun)

SpecTrending == InitTrending /\ [][NextTrending]_vars

\* the engagement pass under the settings of ARENA_MAX_ENGAGEMENTS_PER_RUN
PerRunSettings == {0, 1, maxEngagementsPerRun}

PassDecisions ==
  {[action |-> "none", replyDraft |-> FALSE],
   [action |-> "like", replyDraft |-> FALSE],
   [action |-> "repost", replyDraft |-> FALSE]}

NextPass == Service(PassDecisions, {<<"t1", "t2">>, <<"t2">>})

InitPass == \E perRun \in PerRunSettings : InitWith(FALSE, <<>>, perRun)

SpecPass == InitPass /\ [][NextPass]_vars

\* the mention monitor with scans one after the other
NextSequential == SequentialMonitor

SpecSequential == Init /\ [][NextSequential]_vars

\* the mention monitor of a process that is restarted
NextRestart == SequentialMonitor \/ Restart

SpecRestart == Init /\ [][NextRestart]_vars

\* the mention monitor alone
NextMonitor == Monitor

SpecMonitor == Init /\ [][NextMonitor]_vars

(***************************************************************************)
(* The ledger on its own: recordEngagement and hasAlreadyEngaged called    *)
(* with any thread and action, at any time                                 *)
(***************************************************************************)
LedgerActions == {"like", "reply"}

\* recordEngagement(threadId, action, author)
LedgerRecord(threadId, action) ==
  /\ engLast' = [ev |-> IF MapHas(engagedThreads, MapKey(threadId, action))
                        THEN "recorded_again"
                        ELSE IF Cardinality(engagedThreads) + 1 > softCap
                        THEN "recorded_cleaning" ELSE "recorded",
                 id |-> threadId, action |-> action]
  /\ engagedThreads' =
       recordEngagement(engagedThreads, threadId, action, userHandle[threadId], now)
  /\ UNCHANGED <<otherVars, now, discVars, engagementCounters, engPc, engCandidates, engIdx,
                 engAction, granted, executed, execLog, failures, passLog>>
  /\ UNCHANGED schedVars

\* hasAlreadyEngaged(threadId, action)
LedgerQuery(threadId, action) ==
  /\ engLast' = [ev |-> IF hasAlreadyEngaged(engagedThreads, threadId, action, now)
                        THEN "engaged" ELSE "not_engaged",
                 id |-> threadId, action |-> action]
  /\ engagedThreads' = hasAlreadyEngagedMap(engagedThreads, threadId, action, now)
  /\ UNCHANGED <<otherVars, now, discVars, engagementCounters, engPc, engCandidates, engIdx,
                 engAction, granted, executed, execLog, failures, passLog>>
  /\ UNCHANGED schedVars

\* Date.now() an hour later
LedgerTick ==
  /\ now < MaxTime
  /\ now' = now + hourMs
  /\ UNCHANGED <<otherVars, discVars, engVars, ghostVars>>
  /\ UNCHANGED schedVars

\* Date.now() after the ledger's maximal age has gone by
LedgerSleep ==
  /\ now <= MaxTime
  /\ now' = now + maxAge
  /\ UNCHANGED <<otherVars, discVars, engVars, ghostVars>>
  /\ UNCHANGED schedVars

NextLedger ==
  \/ \E threadId \in Threads, action \in LedgerActions : LedgerRecord(threadId, action)
  \/ \E threadId \in Threads, action \in LedgerActions : LedgerQuery(threadId, action)
  \/ LedgerTick
  \/ LedgerSleep

SpecLedger == Init /\ [][NextLedger]_vars

(***************************************************************************)
(* Properties                                                              *)
(***************************************************************************)
\* a non-expired entry of the ledger for (id, action)
Recorded(id, action) ==
  \E e \in engagedThreads :
    e.key = MapKey(dedupId(id, action), action) /\ now - e.timestamp <= maxAge

InTrailingHour(k) == SelectSeq(execLog[k], LAMBDA x : x > now - hourMs)

\* C3 as stated: in each category the actions executed in any trailing hour
\* never exceed the ceiling.
C3_TrailingHourWithinCeiling ==
  \A k \in Categories : Len(InTrailingHour(k)) <= maxPerHour[k]

\* C3 as amended: the actions executed between two resets of a counter never
\* exceed the ceiling, and those executed in a trailing hour (taken with both
\* its ends) never exceed twice the ceiling.
C3_TrailingHourWithinTwiceCeiling ==
  \A k \in Categories :
    /\ executed[k] <= maxPerHour[k]
    /\ Len(execLog[k]) <= 2 * maxPerHour[k]

\* C3 witness: a trailing hour that straddles a reset holds twice the ceiling.
C3_Witness ==
  /\ Len(InTrailingHour("reposts")) = 2 * maxPerHour["reposts"]
  /\ executed["reposts"] = maxPerHour["reposts"]

\* C4 as stated: an attempt made after the window boundary has passed
\* (now > resetAt) is not denied by the budget.
C4_GrantedAfterBoundary ==
  [][(engPc = "oracle" /\ engPc' = "next" /\ engLast'.ev = "skip_budget")
       => ~(now > engagementCounters[budgetKey(engLast'.action)].resetAt)]_vars

\* C8: when the oracle decides like for a candidate that has a non-expired
\* ledger entry for (id, like), no platform call is started, the ledger and the
\* counters stay as they are, and the loop goes on: from the skipped candidate
\* the pass moves to the next one, or ends at the last candidate or on
\* exhausted budgets.
C8_DedupSkipChangesNothing ==
  [][/\ (/\ engPc = "oracle"
         /\ Recorded(engCandidates[engIdx], "like")
         /\ \/ engPc' = "call" /\ engAction' = "like"
            \/ engPc' = "next" /\ engLast'.action = "like")
          => /\ engPc' = "next"
             /\ engagedThreads' = engagedThreads
             /\ engagementCounters' = engagementCounters
             /\ engIdx' = engIdx /\ engCandidates' = engCandidates
     /\ (engPc = "next" /\ engPc' # "next")
          => \/ engPc' = "oracle" /\ engIdx' = engIdx + 1
                  /\ engCandidates' = engCandidates
             \/ engPc' = "timer"
                  /\ \/ engIdx = Len(engCandidates)
                     \/ exceededEngagementBudget(engagementCounters')]_vars

\* C8 witness: a like was skipped as already recorded, with a candidate left.
C8_Witness ==
  /\ engPc = "next"
  /\ engLast.ev = "skip_dedup"
  /\ engLast.action = "like"
  /\ Recorded(engLast.id, "like")
  /\ engIdx < Len(engCandidates)

\* C9 as stated: a platform call that fails never aborts the pass: while a
\* candidate is left after the one whose call is in flight, the pass is still
\* running after the call has ended.
C9_FailureIsIsolated ==
  [][(engPc = "call" /\ engIdx < Len(engCandidates)) => engPc' # "timer"]_vars

\* C10: after a failed platform call no ledger entry exists for its dedup key,
\* until the action is executed again.
C10_FailureNotRecorded ==
  (engLast.ev = "call_failed")
    => ~MapHas(engagedThreads, MapKey(dedupId(engLast.id, engLast.action), engLast.action))

\* C10 witness: after the failure, a later pass has started the same action on
\* the same target again.
C10_Witness ==
  /\ engLast.ev = "call_failed"
  /\ engPc = "call"
  /\ engCandidates[engIdx] = engLast.id
  /\ engAction = engLast.action

\* the entries of the ledger m under the key of (id, action)
EntriesOf(m, id, action) == {e \in m : e.key = MapKey(id, action)}

\* C6: after recordEngagement(id, action), on a first and on a repeated call,
\* the ledger holds exactly one entry for (id, action) and hasAlreadyEngaged
\* answers true for it; no key ever has two entries.
C6_RecordIsIdempotent ==
  [][\A id \in Threads, a \in LedgerActions :
       LedgerRecord(id, a)
         => /\ Cardinality(EntriesOf(engagedThreads', id, a)) = 1
            /\ hasAlreadyEngaged(engagedThreads', id, a, now')
            /\ \A i2 \in Threads, a2 \in LedgerActions :
                 Cardinality(EntriesOf(engagedThreads', i2, a2)) <= 1]_vars

\* C6 witness: the same (id, action) has been recorded a second time, and the
\* ledger holds one entry for it.
C6_Witness ==
  /\ engLast.ev = "recorded_again"
  /\ Cardinality(EntriesOf(engagedThreads, engLast.id, engLast.action)) = 1
  /\ hasAlreadyEngaged(engagedThreads, engLast.id, engLast.action, now)

C1_OneResponsePerThread ==
  \A t \in Threads : posted[t].reply + posted[t].quote <= 1

\* C5 as stated: the replies posted within one hourly window by the engagement
\* pass, the mention monitor and the reply action together never exceed the
\* ceiling of replies per hour (the clock stands still: one window).
C5_RepliesWithinCeiling ==
  posted["t1"].reply + posted["t2"].reply <= maxPerHour["replies"]

(***************************************************************************)
(* Properties of the mention monitor                                       *)
(***************************************************************************)
\* the notifications in a sequence
Range(seq) == {seq[i] : i \in 1..Len(seq)}

\* C11: a scan that fetches a notification whose id is in the processed set
\* does not take it among its new mentions, so that it is neither stored nor
\* handed to processMentions by that scan.
C11_ProcessedNotPassedAgain ==
  [][\A s \in Scanners, ns \in SUBSET Notifications :
       ScanMentions(s, ns) =>
         \A n \in ns \cap processedMentions :
           monQueue'[s] = monQueue[s] \/ n \notin Range(monQueue'[s])]_vars

\* a scan, alone in flight, has fetched a notification that an earlier scan
\* handed to processMentions, and a new one with it
C11_Witness ==
  /\ \E n \in dropped : evaluated[n] = 1
  /\ \E s \in Scanners :
       /\ monPc[s] = "store"
       /\ Range(monQueue[s]) \cap dropped = {}
       /\ \A r \in Scanners \ {s} : monPc[r] = "idle"

\* C12: no notification is handed to processMentions by more than one scan.
C12_EvaluatedInOneScan == \A n \in Notifications : evaluated[n] <= 1

\* C13: when the thread fetch of a mention fails, the mention is in the
\* processed set afterwards, no reply is posted, and the set of replied threads
\* is as it was: a thread not reported as replied to before the fetch is not
\* reported as replied to after it.
C13_ThreadErrorMarksProcessed ==
  [][\A s \in Scanners :
       MentionAgentReturns(s, "thread_error") =>
         /\ Head(monQueue[s]) \in processedMentions'
         /\ posted' = posted
         /\ repliedThreads' = repliedThreads
         /\ (~hasRepliedToThread(repliedThreads, linkThreadId[Head(monQueue[s])])
               => ~hasRepliedToThread(repliedThreads', linkThreadId[Head(monQueue[s])]))]_vars

\* a thread fetch has failed, and the thread has no reply
C13_Witness ==
  /\ monLast.ev = "thread_error"
  /\ monLast.id \in processedMentions
  /\ posted[linkThreadId[monLast.id]].reply = 0
  /\ ~hasRepliedToThread(repliedThreads, linkThreadId[monLast.id])

\* C15: at most one scan of the mention monitor is in flight.
C15_NoScanReentry == Cardinality({s \in Scanners : monPc[s] # "idle"}) <= 1

(***************************************************************************)
(* Properties of the timers                                                *)
(***************************************************************************)
\* where each task is
taskPc == [post |-> postPc, discovery |-> discPc, engagement |-> engPc]

\* C14: each of the posting, discovery and engagement tasks has at most one
\* body in flight, no timer is armed while its body is in flight, and at most
\* one timer is armed.
C14_OneInFlightThenArmed ==
  \A task \in Tasks :
    /\ sched[task].armed + sched[task].inFlight <= 1
    /\ sched[task].inFlight = IF taskPc[task] = "timer" THEN 0 ELSE 1

\* the engagement pass has run and liked, the posting task has created a
\* thread, and both are armed again
C14_Witness ==
  /\ executed["likes"] > 0
  /\ created > 0
  /\ sched["engagement"] = [armed |-> 1, inFlight |-> 0]
  /\ sched["post"] = [armed |-> 1, inFlight |-> 0]

\* C16: when the body of the engagement pass or of the posting task throws
\* and the service is not stopping, the task is armed again.
C16_ThrowStillArms ==
  [][/\ (CallFails /\ ~stopping => sched'["engagement"] = [armed |-> 1, inFlight |-> 0])
     /\ (PostFails /\ ~stopping => sched'["post"] = [armed |-> 1, inFlight |-> 0])]_vars

\* the platform call of the engagement pass has failed, and the pass is armed
C16_Witness ==
  /\ engLast.ev = "call_failed"
  /\ ~stopping
  /\ sched["engagement"] = [armed |-> 1, inFlight |-> 0]

\* C17: once stop has been called no timer is armed and no task body starts,
\* also when a body in flight at the time of stop returns or throws.
C17_NothingStartsAfterStop ==
  [][stopping' =>
       \A task \in Tasks :
         /\ sched'[task].armed = 0
         /\ sched'[task].inFlight <= sched[task].inFlight
         /\ (taskPc[task] = "timer" => taskPc'[task] = "timer")]_vars

\* stop has been called with the platform call of the engagement pass in
\* flight and the posting task waiting for generateBlock
C17_Witness ==
  /\ stopping
  /\ engPc = "call"
  /\ postPc = "generate"

(***************************************************************************)
(* Properties of dryRun                                                    *)
(***************************************************************************)
\* C20: with dryRun set, the posting task creates no thread, the engagement
\* pass executes no platform action and the mention monitor posts no reply.
C20_DryRunSendsNothing ==
  dryRun =>
    /\ created = 0
    /\ \A k \in Categories : executed[k] = 0
    /\ \A t \in Threads : posted[t].reply = 0 /\ posted[t].quote = 0

(***************************************************************************)
(* Properties of the trending ranking                                      *)
(***************************************************************************)
\* the place of thread t in the feed
IndexIn(seq, t) == CHOOSE i \in 1..Len(seq) : seq[i] = t

C21_ActionsGuardedAndMarking ==
  [][/\ \A t \in Threads, ok \in BOOLEAN :
          ReplyAction(t, ok) =>
            /\ (hasRepliedToThread(repliedThreads, t) => posted' = posted)
            /\ (posted'[t].reply > posted[t].reply => hasRepliedToThread(repliedThreads', t))
     /\ \A t \in Threads :
          QuoteActionStarts(t) /\ hasRepliedToThread(repliedThreads, t) => quotePc' = "none"
     /\ QuoteActionSucceeds => hasRepliedToThread(repliedThreads', quotePc)]_vars

(***************************************************************************)
(* Properties of the mention monitor across scans and restarts             *)
(***************************************************************************)
\* C22: a restart brings back every processed notification and every replied
\* thread: what the monitor reported as processed or as replied to before
\* the restart, it reports so after it.
C22_RestartRestores ==
  [][Restart =>
       /\ \A n \in processedMentions : n \in processedMentions'
       /\ \A t \in repliedThreads : hasRepliedToThread(repliedThreads', t)]_vars

\* C23: after a failed reply post the mention is not marked as replied, and a
\* later scan that fetches its notification takes it up again.
C23_FailedReplyRetried ==
  [][\A s \in Scanners :
       MentionReplyFails(s) =>
         /\ repliedThreads' = repliedThreads
         /\ newMentionsOf({Head(monQueue[s])}, processedMentions')
              = <<Head(monQueue[s])>>]_vars

C25_PassWithinMaxPerRun ==
  /\ Len(passLog) <= maxRun
  /\ \A i, j \in 1..Len(passLog) : i # j => passLog[i] # passLog[j]


\* a kind of budget that the counters, reset where their window is over, leave
\* room in
BudgetLeft(counters, t) ==
  \E k \in Categories : resetAll(counters, t)[k].count < maxPerHour[k]

\* C26: where the loop of the engagement pass comes to a candidate, it stops,
\* with no oracle call and no platform action, exactly when none of the four
\* kinds has budget left; while a kind has budget left it goes on to the oracle
\* call of that candidate.
C26_StopsExactlyWhenAllExhausted ==
  [][/\ (LoopNext \/ LogReturns) /\ engIdx + 1 <= Len(engCandidates)
          => IF BudgetLeft(engagementCounters, now)
             THEN engPc' = "oracle" /\ engIdx' = engIdx + 1
             ELSE /\ engPc' = "timer"
                  /\ engLast'.ev = "budget_break"
                  /\ UNCHANGED <<executed, posted, passLog, engagedThreads>>
     /\ engPc' = "oracle" /\ engPc # "oracle"
          => \E k \in Categories : engagementCounters'[k].count < maxPerHour[k]]_vars

\* a pass has stopped on the exhausted budgets with a candidate not looked at,
\* after an action of its own
C26_Witness ==
  /\ engLast.ev = "budget_break"
  /\ engPc = "timer"
  /\ passLog # <<>>
  /\ \A k \in Categories : engagementCounters[k].count >= maxPerHour[k]


\* the oracle's decision d for the current candidate is denied by the budget of
\* its category, or is a reply or quote that carries no draft text
DeniedOrNoDraft(d) ==
  /\ d.action \in Actions
  /\ \/ engagementCounters[budgetKey(d.action)].count >= maxPerHour[budgetKey(d.action)]
     \/ d.action \in {"reply", "quote"} /\ ~d.replyDraft

\* C27: a decision that is denied by the budget, or a reply or quote decision
\* without draft text, is a plain skip: no platform call is started, nothing is
\* posted, no budget counter changes, no record is added to the ledger or
\* refreshed in it, and the pass goes on from the candidate.
C27_DenialAndNoDraftArePlainSkips ==
  [][\A d \in Decisions :
       (OracleReturns(d) /\ DeniedOrNoDraft(d))
         => /\ engPc' = "next"
            /\ UNCHANGED <<engagementCounters, executed, execLog, posted, passLog>>
            /\ engagedThreads' \subseteq engagedThreads]_vars

\* a reply without draft text has been skipped while the budget of replies and
\* the ledger would have let it through
C27_Witness ==
  /\ engPc = "next"
  /\ engLast.ev = "skip_nodraft"
  /\ engLast.action = "reply"
  /\ engagementCounters["replies"].count < maxPerHour["replies"]
  /\ posted[engLast.id]["reply"] = 0


\* what useModel can answer to the prompt of evaluateEngagementCandidate: no
\* response from either model, text that JSON.parse rejects, or JSON whose
\* action and rationale are strings or are missing; the action is spelled in
\* lower or upper case
OracleOutputs ==
  [response : {"empty", "garbage"}, action : {"absent"}, rationale : {FALSE},
   replyDraft : {FALSE}]
  \cup [response : {"json"}, action : {"absent", "like", "LIKE", "reply", "none"},
        rationale : BOOLEAN, replyDraft : BOOLEAN]

\* parsed.action.toLowerCase()
actionLowerCase(a) == IF a = "LIKE" THEN "like" ELSE a

\* evaluateEngagementCandidate that accepts output without a rationale
evaluateEngagementCandidate_unchecked_rationale(o) ==
  IF o.response # "json" \/ o.action = "absent"
  THEN Null
  ELSE [action |-> actionLowerCase(o.action),
        replyDraft |-> o.replyDraft /\ actionLowerCase(o.action) \in {"reply", "quote"}]

\* evaluateEngagementCandidate on the output o of the model: null where there is
\* no response, where JSON.parse throws, or where action or rationale is not a
\* string; else the decision with its action in lower case (the draft is kept
\* only where the decision can use it)
evaluateEngagementCandidate(o) ==
  IF o.response = "empty" THEN Null
  ELSE IF o.response = "garbage" THEN Null
  ELSE IF o.action = "absent" \/ ~o.rationale THEN Null
  ELSE [action |-> actionLowerCase(o.action),
        replyDraft |-> o.replyDraft /\ actionLowerCase(o.action) \in {"reply", "quote"}]

\* the service with the oracle's decisions parsed from the model's output
OracleDecisions == {evaluateEngagementCandidate(o) : o \in OracleOutputs}

NextOracle == Service(OracleDecisions, {<<"t1", "t2">>})

SpecOracle == Init /\ [][NextOracle]_vars

\* output that cannot be parsed or that lacks an action or a rationale
Malformed(o) == o.response # "json" \/ o.action = "absent" \/ ~o.rationale

\* C28: when the oracle's output for a candidate is unparsable or lacks an
\* action or a rationale, no platform call is started for the candidate, nothing
\* is executed, posted, counted or recorded, and the pass goes on to the next
\* candidate as it does for the decision none.
C28_MalformedOutputIsSkipped ==
  [][\A o \in OracleOutputs :
       (Malformed(o) /\ OracleReturns(evaluateEngagementCandidate(o)))
         => /\ engPc' = "next"
            /\ engIdx' = engIdx /\ engCandidates' = engCandidates
            /\ UNCHANGED <<engagementCounters, engagedThreads, executed, execLog,
                           posted, passLog, granted>>]_vars

\* malformed output for a candidate has been passed over with nothing done for
\* it, and a candidate is left for the pass to go on with
C28_Witness ==
  /\ engPc = "next"
  /\ engLast.ev = "oracle_null"
  /\ engLast.id = engCandidates[engIdx]
  /\ engIdx < Len(engCandidates)
  /\ passLog = <<>>

\* C29: whenever the platform call of an action is started, the counter of the
\* action's category has been incremented for it (the gate is one
\* check-and-increment ahead of the call).
C29_IncrementedBeforeActionStarts ==
  [][(engPc = "oracle" /\ engPc' = "call")
       => engagementCounters'[budgetKey(engAction')].count
            = engagementCounters[budgetKey(engAction')].count + 1]_vars


\* C30: hasAlreadyEngaged answers true exactly when the ledger holds a record
\* of the key that is not older than 48 hours, and no step, a lazy deletion by
\* hasAlreadyEngaged and the cleanup of recordEngagement above the soft cap
\* included, takes a key's record away before 48 hours have gone by since its
\* timestamp: the key keeps that record, or a later one written over it.
C30_ExpiryOnlyAfterMaxAge ==
  [][/\ \A id \in Threads, a \in LedgerActions :
          LedgerQuery(id, a)
            => (engLast'.ev = "engaged"
                  <=> \E e \in engagedThreads :
                        e.key = MapKey(id, a) /\ now - e.timestamp <= 48 * hourMs)
     /\ \A e \in engagedThreads :
          now - e.timestamp <= 48 * hourMs
            => \E e2 \in engagedThreads' :
                 e2.key = e.key /\ e2.timestamp >= e.timestamp]_vars

\* the cleanup above the soft cap has run and taken an expired record away,
\* and a record that is exactly 48 hours old is still in the ledger
C30_Witness ==
  /\ engLast.ev = "recorded_cleaning"
  /\ Cardinality(engagedThreads) <= softCap
  /\ \E e \in engagedThreads : now - e.timestamp = 48 * hourMs


(***************************************************************************)
(* The delay of the next run: jitteredIntervalMinutes and minutesToMs.     *)
(* Math.random() takes the values r / RandomSteps, r in 0 .. RandomSteps-1,*)
(* and minutes and milliseconds are counted in units of 1 / RandomSteps.   *)
(***************************************************************************)
RandomSteps == 10

msPerMinute == 60000

\* jitteredIntervalMinutes without its test max >= min
jitteredIntervalMinutes_unordered(min, max, fallback, r) ==
  IF min.defined /\ max.defined
  THEN IF min.value = max.value
       THEN min.value * RandomSteps
       ELSE min.value * RandomSteps + r * (max.value - min.value)
  ELSE IF fallback.defined THEN fallback.value * RandomSteps
  ELSE 1 * RandomSteps

\* jitteredIntervalMinutes(min, max, fallback) with Math.random() = r / RandomSteps
jitteredIntervalMinutes(min, max, fallback, r) ==
  IF min.defined /\ max.defined /\ max.value >= min.value
  THEN IF min.value = max.value
       THEN min.value * RandomSteps
       ELSE min.value * RandomSteps + r * (max.value - min.value)
  ELSE IF fallback.defined THEN fallback.value * RandomSteps
  ELSE 1 * RandomSteps

\* Math.max
Max(a, b) == IF a > b THEN a ELSE b

\* minutesToMs(minutes)
minutesToMs(minutes) == Max(0, minutes) * msPerMinute

\* the settings of the three intervals that the delay is computed from
IntervalSettings ==
  [min : {Undefined, Num(-2), Num(1), Num(3)},
   max : {Undefined, Num(1), Num(3)},
   fallback : {Undefined, Num(-1), Num(2)}]

\* scheduleNextEngagement computes the delay of the timer it arms
ScheduleDelay(r) ==
  /\ ~stopping
  /\ LET minutes == jitteredIntervalMinutes(intervals.min, intervals.max,
                                            intervals.fallback, r)
     IN armedDelay' = [minutes |-> minutes, delay |-> minutesToMs(minutes),
                       random |-> r, armed |-> TRUE]
  /\ UNCHANGED <<now, discVars, engVars, ghostVars, otherVars, sched, stopping, configVars,
                 created, postPc, trendInput, trendResult, intervals, topInput, topResult,
                 scanInput, scanResult, timers>>

NextJitter == \E r \in 0..(RandomSteps - 1) : ScheduleDelay(r)

InitJitter ==
  /\ InitBase(FALSE, <<>>, maxEngagementsPerRun)
  /\ intervals \in IntervalSettings
  /\ armedDelay = NoDelay
  /\ topInput = DefaultTopInput
  /\ topResult = NoTop
  /\ scanInput = NoScanInput
  /\ scanResult = NoScanResult
  /\ timers = StartedTimers

SpecJitter == InitJitter /\ [][NextJitter]_vars

\* C31 as stated: the minutes of the next delay lie in [min, max] when min and
\* max are both configured, equal the fallback interval when they are not both
\* configured, and equal 1 when nothing is configured; the delay that is armed
\* is never negative.
C31_DelayWithinConfigured ==
  armedDelay.armed =>
    /\ (intervals.min.defined /\ intervals.max.defined)
         => /\ intervals.min.value * RandomSteps <= armedDelay.minutes
            /\ armedDelay.minutes <= intervals.max.value * RandomSteps
    /\ (~(intervals.min.defined /\ intervals.max.defined) /\ intervals.fallback.defined)
         => armedDelay.minutes = intervals.fallback.value * RandomSteps
    /\ (~intervals.min.defined /\ ~intervals.max.defined /\ ~intervals.fallback.defined)
         => armedDelay.minutes = 1 * RandomSteps
    /\ armedDelay.delay >= 0

\* min and max are both configured and are in order
Ordered(i) == i.min.defined /\ i.max.defined /\ i.min.value <= i.max.value

\* C31 as amended: the minutes of the next delay lie in [min, max] when min and
\* max are both configured with min <= max; in every other case, max below min
\* included, they equal the fallback interval when there is one and 1 when
\* there is none; the delay that is armed is the minutes in milliseconds, or 0
\* for negative minutes, and so is never negative.
C31_DelayWithinOrderedBounds ==
  armedDelay.armed =>
    /\ Ordered(intervals)
         => /\ intervals.min.value * RandomSteps <= armedDelay.minutes
            /\ armedDelay.minutes <= intervals.max.value * RandomSteps
    /\ (~Ordered(intervals) /\ intervals.fallback.defined)
         => armedDelay.minutes = intervals.fallback.value * RandomSteps
    /\ (~Ordered(intervals) /\ ~intervals.fallback.defined)
         => armedDelay.minutes = 1 * RandomSteps
    /\ armedDelay.delay >= 0
    /\ armedDelay.minutes >= 0 => armedDelay.delay = armedDelay.minutes * msPerMinute
    /\ armedDelay.minutes < 0 => armedDelay.delay = 0

\* with min above max the fallback interval has been armed
C31_Witness ==
  /\ armedDelay.armed
  /\ intervals.min.defined /\ intervals.max.defined
  /\ intervals.min.value > intervals.max.value
  /\ intervals.fallback.defined
  /\ armedDelay.minutes = intervals.fallback.value * RandomSteps
  /\ armedDelay.delay > 0


(***************************************************************************)
(* The discovery task on its own, over enough scans to fill the history    *)
(***************************************************************************)
MaxHistoryScans == 11

HistoryPages == {<<"t2">>, <<"t1", "t2">>}

NextHistory ==
  \/ DiscoveryTimerFiresWithin(MaxHistoryScans)
  \/ \E page \in HistoryPages : FeedReturns(page)
  \/ FeedFails
  \/ SaveSettles

SpecHistory == Init /\ [][NextHistory]_vars

\* C32: the history never holds more than 10 snapshots; a scan's snapshot is put
\* in front as the most recent one, the snapshots that were there follow it in
\* their order, and when there were already 10 the one at the end, the oldest,
\* is the one that is dropped. No other step changes the history.
C32_HistoryKeepsTenMostRecent ==
  [][/\ Len(lastDiscoverySnapshots') <= 10
     /\ \A page \in HistoryPages :
          FeedReturns(page)
            => /\ Head(lastDiscoverySnapshots').scanned = Len(page)
               /\ Head(lastDiscoverySnapshots').feedKey = Feeds[discFeed]
               /\ Tail(lastDiscoverySnapshots') =
                    IF Len(lastDiscoverySnapshots) < 10
                    THEN lastDiscoverySnapshots
                    ELSE SubSeq(lastDiscoverySnapshots, 1, 9)
     /\ (\A page \in HistoryPages : ~FeedReturns(page))
          => lastDiscoverySnapshots' = lastDiscoverySnapshots]_vars

\* the eleventh scan has put its snapshot in front of a full history whose
\* oldest snapshot differed from the one now at the end
C32_Witness ==
  /\ scans = 11
  /\ discPc = "save"
  /\ Len(lastDiscoverySnapshots) = 10
  /\ lastDiscoverySnapshots[1].scanned = 2
  /\ lastDiscoverySnapshots[2].scanned = 1
  /\ lastDiscoverySnapshots[10].scanned = 2
  /\ lastDiscoverySnapshots[9].scanned = 1


(***************************************************************************)
(* The ranking of one feed page: the filter of runDiscoveryScan and         *)
(* extractTopThreads, under the settings of the allow-list, the follower    *)
(* floor and the maximum per run                                            *)
(***************************************************************************)
\* pages of a feed: the threads of Posts, each at most once, in any order
TopPages ==
  {p \in UNION {[1..n -> Posts] : n \in 0..Cardinality(Posts)} :
     \A i, j \in DOMAIN p : i # j => p[i] # p[j]}

\* settings of ARENA_TARGET_USERS (lower-cased), ARENA_MIN_FOLLOWER_COUNT and
\* ARENA_MAX_ENGAGEMENTS_PER_RUN
TopSettings ==
  [targets : {{}, {"alice"}, {"bob", "carol"}},
   floor : {0, 50},
   perRun : {0, 1, 2, maxEngagementsPerRun}]

\* runDiscoveryScan computes the topThreads of the snapshot of a page
ExtractTop ==
  /\ ~topResult.done
  /\ topResult' =
       [done |-> TRUE,
        topThreads |->
          extractTopThreads(
            FilterThreads(topInput.page, 1, topInput.targets, topInput.floor),
            topInput.perRun)]
  /\ UNCHANGED <<now, discVars, engVars, ghostVars, otherVars, sched, stopping, configVars,
                 created, postPc, trendInput, trendResult, intervals, armedDelay, topInput,
                 scanInput, scanResult, timers>>

NextTop == ExtractTop

InitTop ==
  /\ InitBase(FALSE, <<>>, maxEngagementsPerRun)
  /\ intervals = DefaultIntervals
  /\ armedDelay = NoDelay
  /\ \E p \in TopPages, c \in TopSettings :
       topInput = [page |-> p, targets |-> c.targets, floor |-> c.floor,
                   perRun |-> c.perRun]
  /\ topResult = NoTop
  /\ scanInput = NoScanInput
  /\ scanResult = NoScanResult
  /\ timers = StartedTimers

SpecTop == InitTop /\ [][NextTop]_vars

\* the threads of the page that the follower floor and the allow-list let pass
Eligible ==
  {t \in Range(topInput.page) :
     /\ followersOf(t) >= topInput.floor
     /\ topInput.targets # {} => toLowerCase(userHandle[t]) \in topInput.targets}

\* the candidate list is in the order of non-increasing score, holds only
\* eligible threads, and no eligible thread left out has a higher score than
\* one that is kept
RankedAndFiltered ==
  LET r == topResult.topThreads IN
  /\ \A i, j \in 1..Len(r) : i < j => score(r[i]) >= score(r[j])
  /\ \A i, j \in 1..Len(r) : i # j => r[i] # r[j]
  /\ Range(r) \subseteq Eligible
  /\ \A t \in Eligible \ Range(r) : \A i \in 1..Len(r) : score(t) <= score(r[i])

\* C33: the candidate list of a snapshot holds at most K items, K being the
\* configured maximum per run, ordered by non-increasing score; every item left
\* out scores no higher than every item kept; only items that pass the
\* follower floor and the allow-list are in it.
C33_TopKByScore ==
  topResult.done =>
    /\ Len(topResult.topThreads) <= topInput.perRun
    /\ RankedAndFiltered

\* C34: the trending result holds exactly the threads of the input whose raw
\* total engagement (likes + reposts + replies + bookmarks, unweighted) is at
\* least the floor and whose age is at most the time window, each once, in the
\* order of non-increasing score, with the ranks 1..n in that order.
C34_TrendingExactlyFiltered ==
  LET r == trendResult.trending
      o == trendResult.options
      kept == {t \in Range(trendInput) :
                 /\ t.likeCount + t.repostCount + t.answerCount + t.bookmarkCount
                      >= o.minEngagement
                 /\ t.age <= o.timeWindow * 10}
  IN o # NoOptions =>
       /\ {r[i].thread : i \in 1..Len(r)} = kept
       /\ Len(r) = Cardinality(kept)
       /\ \A i \in 1..Len(r) : r[i].rank = i
       /\ \A i, j \in 1..Len(r) : i < j => scoreAtLeast(r[i].thread, r[j].thread)

\* with a window of 2 hours and the floor 3, a thread exactly 2 hours old and a
\* thread with raw engagement exactly 3 are ranked, in the order of their
\* scores, and a thread 4 hours old is left out
C34_Witness ==
  LET r == trendResult.trending IN
  /\ trendResult.options = [timeWindow |-> 2, minEngagement |-> 3]
  /\ Len(trendInput) = 3
  /\ \E i \in 1..3 : trendInput[i].age > 20
  /\ Len(r) = 2
  /\ \E i \in 1..2 : r[i].thread.age = 20
  /\ \E i \in 1..2 : rawEngagement(r[i].thread) = 3
  /\ r[1].rank = 1 /\ r[2].rank = 2
  /\ ~sameScore(r[1].thread, r[2].thread)

\* C35: on the successful path of the mention monitor the reply is posted first,
\* then the thread is recorded as replied to, and only then is the notification
\* marked processed: at the step that posts the reply the notification is not
\* in the processed set yet, and after it the thread is in the replied set.
C35_ReplyThenRepliedThenProcessed ==
  [][\A s \in Scanners :
       MentionReplySucceeds(s)
         => /\ Head(monQueue[s]) \notin processedMentions
            /\ linkThreadId[Head(monQueue[s])] \in repliedThreads']_vars


(***************************************************************************)
(* The groups of one scan: the fetch of two pages of notifications,         *)
(* filterMentionNotifications, the reply notifications, newMentions         *)
(***************************************************************************)
\* the notifications the platform holds: a mention, a reply without mention, a
\* reply that also mentions the agent, one that is neither, a mention older
\* than maxAgeHours
Fetchable == {"m1", "r1", "b1", "x1", "o1"}

\* notificationMentionsUser(notification, userHandle)
notificationMentionsUser(n) == n \in {"m1", "b1", "o1"}

\* the age test of both filters: age <= maxAgeHours
withinMaxAge(n) == n # "o1"

\* isReply: title or text contains "replied" or "comment", or a /nested/ link
isReply(n) == n \in {"r1", "b1"}

\* pageSize of getNotifications, scaled down
pageSize == 2

\* one page of notifications: at most pageSize of them, each once
NotificationPages ==
  {p \in UNION {[1..n -> Fetchable] : n \in 0..pageSize} :
     \A i, j \in DOMAIN p : i # j => p[i] # p[j]}

\* what the two getNotifications calls of a scan can return: the second page is
\* fetched only after a full first page, and can hold notifications of the
\* first again when the list has moved between the two calls
ScanInputs ==
  {[page1 |-> p1, page2 |-> p2, processed |-> pr] :
     p1 \in NotificationPages, p2 \in NotificationPages, pr \in {{}, {"r1"}}}

\* allNotifications of scanMentions
allNotifications(in) ==
  IF Len(in.page1) < pageSize THEN in.page1 ELSE in.page1 \o in.page2

\* filterMentionNotifications(allNotifications, userHandle, filterOptions)
filterMentionNotifications(all) ==
  SelectSeq(all, LAMBDA n : notificationMentionsUser(n) /\ withinMaxAge(n))

\* replyNotifications of scanMentions
replyNotificationsOf(all, mentions) ==
  SelectSeq(all, LAMBDA n : /\ withinMaxAge(n)
                            /\ ~(\E i \in 1..Len(mentions) : mentions[i] = n)
                            /\ isReply(n))

\* scanMentions from the fetch to the call of processMentions(newMentions)
FormGroups ==
  /\ ~scanResult.done
  /\ LET all == allNotifications(scanInput)
         mentions == filterMentionNotifications(all)
         replies == replyNotificationsOf(all, mentions)
     IN scanResult' =
          [done |-> TRUE, mentionNotifications |-> mentions,
           replyNotifications |-> replies,
           newMentions |-> SelectSeq(mentions \o replies,
                                     LAMBDA n : n \notin scanInput.processed)]
  /\ UNCHANGED <<now, discVars, engVars, ghostVars, otherVars, sched, stopping, configVars,
                 created, postPc, trendInput, trendResult, intervals, armedDelay, topInput,
                 topResult, scanInput, timers>>

NextGroups == FormGroups

InitGroups ==
  /\ InitBase(FALSE, <<>>, maxEngagementsPerRun)
  /\ intervals = DefaultIntervals
  /\ armedDelay = NoDelay
  /\ topInput = DefaultTopInput
  /\ topResult = NoTop
  /\ scanInput \in ScanInputs
  /\ scanResult = NoScanResult
  /\ timers = StartedTimers

SpecGroups == InitGroups /\ [][NextGroups]_vars

\* C36: within one scan no notification id is handed to processMentions more
\* than once, and no notification of the explicit-mention group is in the
\* reply group, whatever the two fetched pages hold.
C36_EachIdOnceInScan ==
  scanResult.done =>
    /\ \A i, j \in 1..Len(scanResult.newMentions) :
         i # j => scanResult.newMentions[i] # scanResult.newMentions[j]
    /\ Range(scanResult.mentionNotifications) \cap Range(scanResult.replyNotifications)
         = {}


(***************************************************************************)
(* The tasks under the guarantees their calls have: a request of            *)
(* ArenaClient settles (the AbortController of request ends it after        *)
(* timeoutMs), the steps between two calls are taken, the local memory      *)
(* calls settle. runtime.useModel, behind the oracle and generateBlock,     *)
(* is awaited without a timeout and has no such guarantee.                  *)
(***************************************************************************)
PlatformCallsSettle ==
  /\ WF_vars((\E page \in {<<"t2">>} : FeedReturns(page)) \/ FeedFails)
  /\ WF_vars(CallSucceeds \/ CallFails)
  /\ WF_vars(CreateThreadReturns)

LocalStepsAreTaken ==
  /\ WF_vars(SaveSettles)
  /\ WF_vars(LoopNext)
  /\ WF_vars(LogReturns)

SpecLive == InitScheduler /\ [][NextScheduler]_vars /\ PlatformCallsSettle /\ LocalStepsAreTaken

\* C37: every invocation of the posting, discovery and engagement tasks
\* eventually settles, and when it has settled the next run of the task is
\* armed unless the service is stopping.
C37_EveryInvocationSettles ==
  \A task \in Tasks :
    (sched[task].inFlight > 0)
      ~> (sched[task].inFlight = 0 /\ (stopping \/ sched[task].armed > 0))


(***************************************************************************)
(* The discovery scan over two configured feeds, ARENA_TARGET_FEEDS =      *)
(* trending,suggested                                                      *)
(***************************************************************************)
MaxFeedScans == 2

TargetFeeds == <<"trending", "suggested">>

NextFeeds ==
  \/ DiscoveryTimerFiresWithin(MaxFeedScans)
  \/ \E page \in HistoryPages : FeedReturnsOf(TargetFeeds, page)
  \/ FeedFailsOf(TargetFeeds)
  \/ \E ok \in BOOLEAN : SaveSettlesOf(TargetFeeds, ok)

SpecFeeds == Init /\ [][NextFeeds]_vars

\* C38: in a discovery scan a failure while fetching or scoring a feed is logged
\* and the scan goes on with the feed after it, so that a scan ends only after
\* its last feed; a failure to persist a snapshot is logged, leaves the snapshot
\* at the head of the history, and the scan goes on in the same way.
C38_FailuresDoNotEndTheScan ==
  [][/\ FeedFailsOf(TargetFeeds)
          => /\ discLast' = ScanEvent("scan_failed_for_feed", TargetFeeds[discFeed])
             /\ lastDiscoverySnapshots' = lastDiscoverySnapshots
     /\ SaveSettlesOf(TargetFeeds, FALSE)
          => /\ discLast' = ScanEvent("persist_failed_results", TargetFeeds[discFeed])
             /\ lastDiscoverySnapshots' = lastDiscoverySnapshots
             /\ Head(lastDiscoverySnapshots').feedKey = TargetFeeds[discFeed]
     /\ (discPc = "fetch" /\ discPc' # "save") \/ (discPc = "save")
          => IF discFeed < Len(TargetFeeds)
             THEN discPc' = "fetch" /\ discFeed' = discFeed + 1
             ELSE discPc' = "timer"
     /\ (discPc # "timer" /\ discPc' = "timer") => discFeed = Len(TargetFeeds)]_vars

\* the first scan has ended: its first feed failed, its second feed was scanned,
\* the snapshot of the second feed could not be persisted and is in the history
C38_Witness ==
  /\ scans = 1
  /\ discPc = "timer"
  /\ discLast = ScanEvent("persist_failed_results", "suggested")
  /\ Len(lastDiscoverySnapshots) = 1
  /\ lastDiscoverySnapshots[1].feedKey = "suggested"


(***************************************************************************)
(* The engagement task over a page of two threads of one author (written   *)
(* "Alice" and "alice") and one of another, with the clock, the oracle     *)
(* free to answer follow                                                   *)
(***************************************************************************)
FollowDecisions ==
  {[action |-> "none", replyDraft |-> FALSE],
   [action |-> "follow", replyDraft |-> FALSE]}

FollowPages == {<<"t1", "t2", "t3">>}

NextFollow == Tick \/ Service(FollowDecisions, FollowPages)

SpecFollow == Init /\ [][NextFollow]_vars

\* the ledger holds a follow of the author of thread id, recorded within the
\* retention window
FollowRecorded(id) ==
  \E e \in engagedThreads :
    /\ e.action = "follow"
    /\ toLowerCase(e.author) = toLowerCase(userHandle[id])
    /\ now - e.timestamp <= maxAge

\* C39: once a follow of an author is recorded, a follow decision for a thread of
\* that author (the handle compared without regard to case) within the retention
\* window is skipped: no follow call is started and no follow budget is consumed.
C39_FollowOncePerAuthor ==
  [][\A d \in FollowDecisions :
       (OracleReturns(d) /\ d.action = "follow" /\ FollowRecorded(engCandidates[engIdx]))
         => /\ engPc' = "next"
            /\ engLast'.ev \in {"skip_dedup", "skip_budget"}
            /\ granted' = granted
            /\ executed' = executed
            /\ engagementCounters' = engagementCounters]_vars

\* the follow decision for t2 of "alice" has been skipped as a duplicate of the
\* follow of "Alice" recorded for t1, with follow budget left
C39_Witness ==
  /\ engPc = "next"
  /\ engLast = [ev |-> "skip_dedup", id |-> "t2", action |-> "follow"]
  /\ engagementCounters["follows"].count < maxPerHour["follows"]
  /\ \E e \in engagedThreads :
       e.key = MapKey("user:alice", "follow") /\ e.author = "Alice"


(***************************************************************************)
(* The timers of the mention monitor and of the trending monitor           *)
(* (startMonitoring, stop)                                                 *)
(***************************************************************************)
MaxTimerScans == 2

\* scanMentions or scanTrending is called
ScanStarts(m) == [timers EXCEPT ![m].scans = @ + 1]

\* the timeout of startMonitoring fires, 5 seconds after start: the trending
\* monitor calls scanTrending, the mention monitor loadProcessedMentions
InitialTimerFires(m) ==
  /\ timers[m].initialTimer = "pending"
  /\ timers' = IF m = "mention"
               THEN [timers EXCEPT ![m].initialTimer = "loading"]
               ELSE [ScanStarts(m) EXCEPT ![m].initialTimer = "fired"]
  /\ UNCHANGED <<now, discVars, engVars, ghostVars, otherVars, sched, stopping, configVars,
                 created, postPc, trendInput, trendResult, intervals, armedDelay, topInput,
                 topResult, scanInput, scanResult>>

\* loadProcessedMentions resolves (it catches its errors): the first scan is run
LoadSettles ==
  /\ timers["mention"].initialTimer = "loading"
  /\ timers' = [ScanStarts("mention") EXCEPT !["mention"].initialTimer = "fired"]
  /\ UNCHANGED <<now, discVars, engVars, ghostVars, otherVars, sched, stopping, configVars,
                 created, postPc, trendInput, trendResult, intervals, armedDelay, topInput,
                 topResult, scanInput, scanResult>>

\* the callback of setInterval is run
IntervalFires(m) ==
  /\ timers[m].intervalId
  /\ timers[m].scans < MaxTimerScans
  /\ timers' = ScanStarts(m)
  /\ UNCHANGED <<now, discVars, engVars, ghostVars, otherVars, sched, stopping, configVars,
                 created, postPc, trendInput, trendResult, intervals, armedDelay, topInput,
                 topResult, scanInput, scanResult>>

\* stop(): clearInterval(intervalId), intervalId = null, isRunning = false
MonitorStop(m) ==
  /\ ~timers[m].stopped
  /\ timers' = [timers EXCEPT ![m].intervalId = FALSE, ![m].isRunning = FALSE,
                              ![m].stopped = TRUE]
  /\ UNCHANGED <<now, discVars, engVars, ghostVars, otherVars, sched, stopping, configVars,
                 created, postPc, trendInput, trendResult, intervals, armedDelay, topInput,
                 topResult, scanInput, scanResult>>

NextTimers ==
  \/ \E m \in Monitors : InitialTimerFires(m)
  \/ LoadSettles
  \/ \E m \in Monitors : IntervalFires(m)
  \/ \E m \in Monitors : MonitorStop(m)

SpecTimers == Init /\ [][NextTimers]_vars

\* C40: after stop() of a monitor has returned, no scan of that monitor starts,
\* the first scan that startMonitoring schedules 5 seconds after start included.
C40_NoScanAfterStop ==
  [][\A m \in Monitors :
       timers[m].stopped => timers'[m].scans = timers[m].scans]_vars

====
